---------------------------- MODULE Spec2Model ----------------------------
(***************************************************************************)
(* Quordle engine: the Latin and Hangul evaluators, the Hangul codec and   *)
(* the game/board state machine (createGame, submitGuess, setCurrentGuess, *)
(* computeKeyboardMap).                                                    *)
(*                                                                         *)
(* A string is a sequence of UTF-16 code units (integers): "a" is 97, "A"  *)
(* is 65, "1" is 49, a composed Hangul syllable is in 44032..55203         *)
(* (U+AC00..U+D7A3) and a compatibility jamo in 12593..12643.              *)
(***************************************************************************)
EXTENDS Integers, Sequences, FiniteSets, TLC

VARIABLES
    game,   \* the caller's current GameState value (game = submitGuess(game, g))
    ev      \* the evaluator harness: one evaluateGuess call on drawn inputs

vars == <<game, ev>>

\* null of solvedOnGuess and of a decomposed coda; 0 is never a guess number
\* (they are 1-indexed) and never a code unit of a jamo.
Null == 0
\* the empty string '', where a character or null may stand
EmptyString == -1

(***************************************************************************)
(* Bounds of the model.                                                    *)
(***************************************************************************)
\* createGame is called with maxGuesses in 0..MaxGuessesBound
MaxGuessesBound == 4
\* the evaluator harness draws words of length 0..MaxEvalLen
MaxEvalLen == 3

(***************************************************************************)
(* Strings.                                                                *)
(***************************************************************************)
\* a folding that leaves every code unit alone
toLowerCaseChar_identity(c) == c

\* String.prototype.toLowerCase on one code unit that folds to one code
\* unit: A-Z fold to a-z; a-z, digits and Hangul are left alone.
toLowerCaseChar(c) == IF c >= 65 /\ c <= 90 THEN c + 32 ELSE c

\* the lower-case mapping of one code unit as a string: U+0130 (capital I
\* with dot above) maps to two code units, "i" and U+0307
lowerCaseOf(c) == IF c = 304 THEN <<105, 775>> ELSE <<toLowerCaseChar(c)>>

RECURSIVE toLowerCase(_)
toLowerCase(s) ==
    IF s = <<>> THEN <<>> ELSE lowerCaseOf(Head(s)) \o toLowerCase(Tail(s))

\* s.slice(0, n)
slice0(s, n) == SubSeq(s, 1, IF Len(s) < n THEN Len(s) ELSE n)

\* Map.get(k) || 0 on a count map (a function from keys to numbers)
getOr0(m, k) == IF k \in DOMAIN m THEN m[k] ELSE 0

\* Map.set(k, v)
mapSet(m, k, v) == (k :> v) @@ m

(***************************************************************************)
(* evaluator.ts                                                            *)
(***************************************************************************)
\* "Count letters in target": for (const letter of targetLower) counts[letter]++
RECURSIVE countLetters(_, _, _)
countLetters(target, i, counts) ==
    IF i > Len(target) THEN counts
    ELSE countLetters(target, i + 1,
                      mapSet(counts, target[i], getOr0(counts, target[i]) + 1))

\* the first pass without the decrement of the matched letter's count
RECURSIVE firstPass_noDecrement(_, _, _, _)
firstPass_noDecrement(guess, target, i, st) ==
    IF i > Len(guess) THEN st
    ELSE IF guess[i] = target[i]
         THEN firstPass_noDecrement(guess, target, i + 1,
                  [result |-> [st.result EXCEPT ![i] = "correct"],
                   counts |-> st.counts])
         ELSE firstPass_noDecrement(guess, target, i + 1, st)

\* "First pass: mark correct letters"; st = [result, counts]
RECURSIVE firstPass(_, _, _, _)
firstPass(guess, target, i, st) ==
    IF i > Len(guess) THEN st
    ELSE IF guess[i] = target[i]
         THEN firstPass(guess, target, i + 1,
                  [result |-> [st.result EXCEPT ![i] = "correct"],
                   counts |-> mapSet(st.counts, guess[i], st.counts[guess[i]] - 1)])
         ELSE firstPass(guess, target, i + 1, st)

\* the second pass without the decrement of the credited letter's count
RECURSIVE secondPass_noDecrement(_, _, _)
secondPass_noDecrement(guess, i, st) ==
    IF i > Len(guess) THEN st
    ELSE IF st.result[i] = "correct" THEN secondPass_noDecrement(guess, i + 1, st)
    ELSE IF getOr0(st.counts, guess[i]) > 0
         THEN secondPass_noDecrement(guess, i + 1,
                  [result |-> [st.result EXCEPT ![i] = "present"],
                   counts |-> st.counts])
         ELSE secondPass_noDecrement(guess, i + 1, st)

\* "Second pass: mark present letters"
RECURSIVE secondPass(_, _, _)
secondPass(guess, i, st) ==
    IF i > Len(guess) THEN st
    ELSE IF st.result[i] = "correct" THEN secondPass(guess, i + 1, st)
    ELSE IF getOr0(st.counts, guess[i]) > 0
         THEN secondPass(guess, i + 1,
                  [result |-> [st.result EXCEPT ![i] = "present"],
                   counts |-> mapSet(st.counts, guess[i], getOr0(st.counts, guess[i]) - 1)])
         ELSE secondPass(guess, i + 1, st)

\* the two passes on already-normalised, equal-length sequences
twoPass(guess, target) ==
    LET init == [result |-> [i \in 1..Len(guess) |-> "absent"],
                 counts |-> countLetters(target, 1, <<>>)]
    IN  secondPass(guess, 1, firstPass(guess, target, 1, init)).result

\* evaluateGuess: a thrown Error is the value [error |-> "LengthMismatch"]
evaluateGuess(guess, target) ==
    LET guessLower  == toLowerCase(guess)
        targetLower == toLowerCase(target)
    IN  IF Len(guessLower) # Len(targetLower)
        THEN [error |-> "LengthMismatch", result |-> <<>>]
        ELSE [error |-> "none", result |-> twoPass(guessLower, targetLower)]

isSolved(result) == \A i \in 1..Len(result) : result[i] = "correct"

(***************************************************************************)
(* jamo.ts: the Hangul codec.  Tables are 1-indexed here (index + 1).      *)
(***************************************************************************)
ONSETS == <<12593, 12594, 12596, 12599, 12600, 12601, 12609, 12610, 12611, 12613,
            12614, 12615, 12616, 12617, 12618, 12619, 12620, 12621, 12622>>

VOWELS == <<12623, 12624, 12625, 12626, 12627, 12628, 12629, 12630, 12631, 12632,
            12633, 12634, 12635, 12636, 12637, 12638, 12639, 12640, 12641, 12642,
            12643>>

\* CODAS[0] = '' (no coda) is 0 here
CODAS == <<EmptyString, 12593, 12594, 12595, 12596, 12597, 12598, 12599, 12601, 12602,
           12603, 12604, 12605, 12606, 12607, 12608, 12609, 12610, 12612, 12613,
           12614, 12615, 12616, 12618, 12619, 12620, 12621, 12622>>

HANGUL_BASE == 44032
HANGUL_LAST == 55203
VOWEL_COUNT == 21
CODA_COUNT == 28

isHangulSyllable(char) == char >= HANGUL_BASE /\ char <= HANGUL_LAST

\* decomposeHangul past its guard, on a composed syllable
decomposeHangul(syllable) ==
    LET code       == syllable - HANGUL_BASE
        onsetIndex == code \div (VOWEL_COUNT * CODA_COUNT)
        vowelIndex == (code % (VOWEL_COUNT * CODA_COUNT)) \div CODA_COUNT
        codaIndex  == code % CODA_COUNT
    IN  [onset |-> ONSETS[onsetIndex + 1],
         vowel |-> VOWELS[vowelIndex + 1],
         coda  |-> IF codaIndex = 0 THEN Null ELSE CODAS[codaIndex + 1]]

\* COMPOUND_CODA_SPLIT as a set of <<compound, first, second>>
COMPOUND_CODA_SPLIT ==
    { <<12595, 12593, 12613>>, <<12597, 12596, 12616>>, <<12598, 12596, 12622>>,
      <<12602, 12601, 12593>>, <<12603, 12601, 12609>>, <<12604, 12601, 12610>>,
      <<12605, 12601, 12613>>, <<12606, 12601, 12620>>, <<12607, 12601, 12621>>,
      <<12608, 12601, 12622>>, <<12612, 12610, 12613>> }

\* splitCompoundCoda: <<first, second>>, or <<>> for null
splitCompoundCoda(coda) ==
    IF \E e \in COMPOUND_CODA_SPLIT : e[1] = coda
    THEN LET e == CHOOSE e \in COMPOUND_CODA_SPLIT : e[1] = coda IN <<e[2], e[3]>>
    ELSE <<>>

\* Array.prototype.indexOf on a table: a 0-based index, or -1
indexOf(table, x) ==
    IF \E n \in 1..Len(table) : table[n] = x
    THEN (CHOOSE n \in 1..Len(table) : table[n] = x) - 1
    ELSE -1

\* composeHangul with the coda left out of the code
composeHangul_withoutCoda(onset, vowel, coda) ==
    LET onsetIndex == indexOf(ONSETS, onset)
        vowelIndex == indexOf(VOWELS, vowel)
    IN  IF onsetIndex = -1 THEN [error |-> "Invalid onset", result |-> Null]
        ELSE IF vowelIndex = -1 THEN [error |-> "Invalid vowel", result |-> Null]
        ELSE [error |-> "none",
              result |-> HANGUL_BASE + (onsetIndex * VOWEL_COUNT + vowelIndex) * CODA_COUNT]

\* composeHangul: [error, result]; a null or empty coda is index 0
composeHangul(onset, vowel, coda) ==
    LET onsetIndex == indexOf(ONSETS, onset)
        vowelIndex == indexOf(VOWELS, vowel)
        codaIndex  == IF coda # Null /\ coda # EmptyString
                      THEN indexOf(CODAS, coda) ELSE 0
    IN  IF onsetIndex = -1 THEN [error |-> "Invalid onset", result |-> Null]
        ELSE IF vowelIndex = -1 THEN [error |-> "Invalid vowel", result |-> Null]
        ELSE IF codaIndex = -1 THEN [error |-> "Invalid coda", result |-> Null]
        ELSE [error |-> "none",
              result |-> HANGUL_BASE
                           + (onsetIndex * VOWEL_COUNT + vowelIndex) * CODA_COUNT + codaIndex]

\* decomposeHangul with its guard: [error, result]; the empty string has no
\* first code unit and fails the range test
decomposeHangulOrThrow(syllable) ==
    IF ~isHangulSyllable(syllable)
    THEN [error |-> "Not a Hangul syllable", result |-> Null]
    ELSE [error |-> "none", result |-> decomposeHangul(syllable)]

\* CODA_COMBINATIONS as a set of <<first, second, compound>>
CODA_COMBINATIONS ==
    { <<12593, 12613, 12595>>,
      <<12596, 12616, 12597>>, <<12596, 12622, 12598>>,
      <<12601, 12593, 12602>>, <<12601, 12609, 12603>>, <<12601, 12610, 12604>>,
      <<12601, 12613, 12605>>, <<12601, 12620, 12606>>, <<12601, 12621, 12607>>,
      <<12601, 12622, 12608>>,
      <<12610, 12613, 12612>> }

\* combineCodas looking its arguments up the other way round
combineCodas_swapped(first, second) ==
    IF \E e \in CODA_COMBINATIONS : e[1] = second /\ e[2] = first
    THEN (CHOOSE e \in CODA_COMBINATIONS : e[1] = second /\ e[2] = first)[3]
    ELSE Null

\* combineCodas: the compound coda, or Null for null
combineCodas(first, second) ==
    IF \E e \in CODA_COMBINATIONS : e[1] = first /\ e[2] = second
    THEN (CHOOSE e \in CODA_COMBINATIONS : e[1] = first /\ e[2] = second)[3]
    ELSE Null

(***************************************************************************)
(* evaluatorKo.ts                                                          *)
(***************************************************************************)
\* "Count syllables in target"
RECURSIVE countSyllables(_, _, _)
countSyllables(target, i, targetCounts) ==
    IF i > Len(target) THEN targetCounts
    ELSE countSyllables(target, i + 1,
                        mapSet(targetCounts, target[i], getOr0(targetCounts, target[i]) + 1))

\* the first pass without the decrement of targetCounts
RECURSIVE markCorrectSyllables_noDecrement(_, _, _, _)
markCorrectSyllables_noDecrement(guess, target, i, st) ==
    IF i > Len(guess) THEN st
    ELSE IF guess[i] = target[i]
         THEN markCorrectSyllables_noDecrement(guess, target, i + 1,
                  [result |-> [st.result EXCEPT ![i] = "correct"], counts |-> st.counts])
         ELSE markCorrectSyllables_noDecrement(guess, target, i + 1, st)

\* "First pass: mark correct (exact position match)"
RECURSIVE markCorrectSyllables(_, _, _, _)
markCorrectSyllables(guess, target, i, st) ==
    IF i > Len(guess) THEN st
    ELSE IF guess[i] = target[i]
         THEN markCorrectSyllables(guess, target, i + 1,
                  [result |-> [st.result EXCEPT ![i] = "correct"],
                   counts |-> mapSet(st.counts, guess[i], st.counts[guess[i]] - 1)])
         ELSE markCorrectSyllables(guess, target, i + 1, st)

\* "Second pass: mark present (right syllable, wrong position)"
RECURSIVE markPresentSyllables(_, _, _)
markPresentSyllables(guess, i, st) ==
    IF i > Len(guess) THEN st
    ELSE IF st.result[i] = "correct" THEN markPresentSyllables(guess, i + 1, st)
    ELSE LET remaining == getOr0(st.counts, guess[i])
         IN  IF remaining > 0
             THEN markPresentSyllables(guess, i + 1,
                      [result |-> [st.result EXCEPT ![i] = "present"],
                       counts |-> mapSet(st.counts, guess[i], remaining - 1)])
             ELSE markPresentSyllables(guess, i + 1, st)

\* Layer 1; no case folding here
evaluateGuessSyllable(guess, target) ==
    IF Len(guess) # Len(target)
    THEN [error |-> "LengthMismatch", result |-> <<>>]
    ELSE LET init == [result |-> [i \in 1..Len(guess) |-> "absent"],
                      counts |-> countSyllables(target, 1, <<>>)]
         IN  [error |-> "none",
              result |-> markPresentSyllables(guess, 1,
                             markCorrectSyllables(guess, target, 1, init)).result]

\* jamoHints: null
NullJamoHint == [onset |-> "null", vowel |-> "null", coda |-> "null"]

\* Layer 2 with the onset looked for at its own position only
computeJamoHints_onsetInPlace(guessSyllable, targetSyllable, allTargetVowelSet, allTargetConsonantSet) ==
    IF ~isHangulSyllable(guessSyllable) \/ ~isHangulSyllable(targetSyllable)
    THEN [onset |-> "absent", vowel |-> "absent", coda |-> "null"]
    ELSE
    LET g == decomposeHangul(guessSyllable)
        t == decomposeHangul(targetSyllable)
    IN  [onset |-> IF g.onset = t.onset THEN "correct" ELSE "absent",
         vowel |-> IF g.vowel = t.vowel THEN "correct"
                   ELSE IF g.vowel \in allTargetVowelSet THEN "present" ELSE "absent",
         coda  |-> IF g.coda # Null \/ t.coda # Null
                   THEN IF g.coda = Null THEN "absent"
                        ELSE IF g.coda = t.coda THEN "correct"
                        ELSE IF g.coda \in allTargetConsonantSet THEN "present"
                        ELSE "absent"
                   ELSE "null"]

\* Layer 2 for one non-green position; a null coda hint is "null"
computeJamoHints(guessSyllable, targetSyllable, allTargetVowelSet, allTargetConsonantSet) ==
    IF ~isHangulSyllable(guessSyllable) \/ ~isHangulSyllable(targetSyllable)
    THEN [onset |-> "absent", vowel |-> "absent", coda |-> "null"]
    ELSE
    LET g == decomposeHangul(guessSyllable)
        t == decomposeHangul(targetSyllable)
        onsetResult == IF g.onset = t.onset THEN "correct"
                       ELSE IF g.onset \in allTargetConsonantSet THEN "present"
                       ELSE "absent"
        vowelResult == IF g.vowel = t.vowel THEN "correct"
                       ELSE IF g.vowel \in allTargetVowelSet THEN "present"
                       ELSE "absent"
        split == splitCompoundCoda(g.coda)
        codaResult ==
            IF g.coda # Null \/ t.coda # Null
            THEN IF g.coda = Null THEN "absent"
                 ELSE IF g.coda = t.coda THEN "correct"
                 ELSE IF g.coda \in allTargetConsonantSet THEN "present"
                 ELSE IF split # <<>> /\ (split[1] \in allTargetConsonantSet
                                          \/ split[2] \in allTargetConsonantSet)
                      THEN "present"
                      ELSE "absent"
            ELSE "null"
    IN  [onset |-> onsetResult, vowel |-> vowelResult, coda |-> codaResult]

\* the jamo sets of evaluateGuessKo, built over the whole target word
targetVowelSet(target) ==
    { decomposeHangul(target[i]).vowel :
        i \in { j \in 1..Len(target) : isHangulSyllable(target[j]) } }

\* the consonant set without the components of compound codas
targetConsonantSet_noSplit(target) ==
    LET syl == { target[j] : j \in { k \in 1..Len(target) : isHangulSyllable(target[k]) } }
        withCoda == { s \in syl : decomposeHangul(s).coda # Null }
    IN  { decomposeHangul(s).onset : s \in syl }
        \cup { decomposeHangul(s).coda : s \in withCoda }

targetConsonantSet(target) ==
    LET syl == { target[j] : j \in { k \in 1..Len(target) : isHangulSyllable(target[k]) } }
        withCoda == { s \in syl : decomposeHangul(s).coda # Null }
    IN  { decomposeHangul(s).onset : s \in syl }
        \cup { decomposeHangul(s).coda : s \in withCoda }
        \cup UNION { { splitCompoundCoda(decomposeHangul(s).coda)[n] :
                         n \in DOMAIN splitCompoundCoda(decomposeHangul(s).coda) } :
                     s \in withCoda }

\* evaluateGuessKo computing hints at every position, correct ones included
evaluateGuessKo_hintsEverywhere(guess, target) ==
    LET syllableResults == evaluateGuessSyllable(guess, target)
    IN  IF syllableResults.error # "none"
        THEN [error |-> syllableResults.error, result |-> <<>>]
        ELSE [error |-> "none",
              result |->
                [i \in 1..Len(guess) |->
                    [syllable  |-> syllableResults.result[i],
                     jamoHints |-> computeJamoHints(guess[i], target[i],
                                       targetVowelSet(target),
                                       targetConsonantSet(target))]]]

\* evaluateGuessKo: per position [syllable, jamoHints]
evaluateGuessKo(guess, target) ==
    LET syllableResults == evaluateGuessSyllable(guess, target)
    IN  IF syllableResults.error # "none"
        THEN [error |-> syllableResults.error, result |-> <<>>]
        ELSE [error |-> "none",
              result |->
                [i \in 1..Len(guess) |->
                    IF syllableResults.result[i] = "correct"
                    THEN [syllable |-> "correct", jamoHints |-> NullJamoHint]
                    ELSE [syllable  |-> syllableResults.result[i],
                          jamoHints |-> computeJamoHints(guess[i], target[i],
                                            targetVowelSet(target),
                                            targetConsonantSet(target))]]]

(***************************************************************************)
(* The second evaluatorKo source file (part_007): evaluateGuessKo with     *)
(* counted jamo pools.  Its evaluateGuessSyllable is the one above.        *)
(***************************************************************************)
\* const inc = (m, k) => m.set(k, (m.get(k) || 0) + 1), dec, has
inc(m, k) == mapSet(m, k, getOr0(m, k) + 1)

dec(m, k) == mapSet(m, k, getOr0(m, k) - 1)

has(m, k) == getOr0(m, k) > 0

\* a coda counted into the consonant pool: a compound coda as its two components
incCoda(consonantCounts, coda) ==
    LET split == splitCompoundCoda(coda)
    IN  IF split # <<>> THEN inc(inc(consonantCounts, split[1]), split[2])
        ELSE inc(consonantCounts, coda)

\* a coda taken out of the consonant pool
decCoda(consonantCounts, coda) ==
    LET split == splitCompoundCoda(coda)
    IN  IF split # <<>> THEN dec(dec(consonantCounts, split[1]), split[2])
        ELSE dec(consonantCounts, coda)

\* "Build target jamo count maps": pools is [consonantCounts, vowelCounts]
RECURSIVE buildJamoCounts(_, _, _)
buildJamoCounts(target, i, pools) ==
    IF i > Len(target) THEN pools
    ELSE IF isHangulSyllable(target[i])
         THEN LET d  == decomposeHangul(target[i])
                  c1 == inc(pools.consonantCounts, d.onset)
              IN  buildJamoCounts(target, i + 1,
                      [consonantCounts |-> IF d.coda # Null THEN incCoda(c1, d.coda) ELSE c1,
                       vowelCounts     |-> inc(pools.vowelCounts, d.vowel)])
         ELSE buildJamoCounts(target, i + 1, pools)

\* "Pre-consume jamo from syllable-level green matches"
RECURSIVE preConsume(_, _, _, _)
preConsume(target, syllableResults, i, pools) ==
    IF i > Len(syllableResults) THEN pools
    ELSE IF syllableResults[i] = "correct" /\ isHangulSyllable(target[i])
         THEN LET d  == decomposeHangul(target[i])
                  c1 == dec(pools.consonantCounts, d.onset)
              IN  preConsume(target, syllableResults, i + 1,
                      [consonantCounts |-> IF d.coda # Null THEN decCoda(c1, d.coda) ELSE c1,
                       vowelCounts     |-> dec(pools.vowelCounts, d.vowel)])
         ELSE preConsume(target, syllableResults, i + 1, pools)

\* the initial hints with a coda hint only where the guess has a final
initialHints_guessFinalOnly(guess, target, syllableResults) ==
    [i \in 1..Len(guess) |->
        IF syllableResults[i] = "correct" THEN NullJamoHint
        ELSE IF isHangulSyllable(guess[i]) /\ isHangulSyllable(target[i])
        THEN [onset |-> "absent", vowel |-> "absent",
              coda  |-> IF decomposeHangul(guess[i]).coda # Null
                        THEN "absent" ELSE "null"]
        ELSE [onset |-> "absent", vowel |-> "absent", coda |-> "null"]]

\* "Initialise jamo hints for every position": null for a green syllable
initialHints(guess, target, syllableResults) ==
    [i \in 1..Len(guess) |->
        IF syllableResults[i] = "correct" THEN NullJamoHint
        ELSE IF isHangulSyllable(guess[i]) /\ isHangulSyllable(target[i])
        THEN LET g == decomposeHangul(guess[i])
                 t == decomposeHangul(target[i])
             IN  [onset |-> "absent", vowel |-> "absent",
                  coda  |-> IF g.coda # Null \/ t.coda # Null THEN "absent" ELSE "null"]
        ELSE [onset |-> "absent", vowel |-> "absent", coda |-> "null"]]

\* "Pass 1: green jamo (same-position match)"; st is
\* [hints, consonantCounts, vowelCounts]
RECURSIVE greenJamoPass(_, _, _, _)
greenJamoPass(guess, target, i, st) ==
    IF i > Len(guess) THEN st
    ELSE IF st.hints[i] = NullJamoHint
            \/ ~isHangulSyllable(guess[i]) \/ ~isHangulSyllable(target[i])
    THEN greenJamoPass(guess, target, i + 1, st)
    ELSE LET g == decomposeHangul(guess[i])
             t == decomposeHangul(target[i])
             onsetHit == g.onset = t.onset
             vowelHit == g.vowel = t.vowel
             codaHit  == g.coda # Null /\ t.coda # Null /\ g.coda = t.coda
             c1 == IF onsetHit THEN dec(st.consonantCounts, g.onset) ELSE st.consonantCounts
             c2 == IF codaHit THEN decCoda(c1, g.coda) ELSE c1
             h  == [onset |-> IF onsetHit THEN "correct" ELSE st.hints[i].onset,
                    vowel |-> IF vowelHit THEN "correct" ELSE st.hints[i].vowel,
                    coda  |-> IF codaHit THEN "correct" ELSE st.hints[i].coda]
         IN  greenJamoPass(guess, target, i + 1,
                 [hints           |-> [st.hints EXCEPT ![i] = h],
                  consonantCounts |-> c2,
                  vowelCounts     |-> IF vowelHit THEN dec(st.vowelCounts, g.vowel)
                                      ELSE st.vowelCounts])

\* "Pass 2: yellow jamo (cross-position match)"
RECURSIVE yellowJamoPass(_, _, _)
yellowJamoPass(guess, i, st) ==
    IF i > Len(guess) THEN st
    ELSE IF st.hints[i] = NullJamoHint \/ ~isHangulSyllable(guess[i])
    THEN yellowJamoPass(guess, i + 1, st)
    ELSE LET g == decomposeHangul(guess[i])
             h == st.hints[i]
             \* Onset
             onsetHit == h.onset # "correct" /\ has(st.consonantCounts, g.onset)
             c1 == IF onsetHit THEN dec(st.consonantCounts, g.onset) ELSE st.consonantCounts
             \* Vowel
             vowelHit == h.vowel # "correct" /\ has(st.vowelCounts, g.vowel)
             \* Coda
             codaTried == h.coda # "null" /\ h.coda # "correct" /\ g.coda # Null
             codaWhole == codaTried /\ has(c1, g.coda)
             split == splitCompoundCoda(g.coda)
             has0  == codaTried /\ ~codaWhole /\ split # <<>> /\ has(c1, split[1])
             has1  == codaTried /\ ~codaWhole /\ split # <<>> /\ has(c1, split[2])
             c2 == IF codaWhole THEN dec(c1, g.coda)
                   ELSE LET d0 == IF has0 THEN dec(c1, split[1]) ELSE c1
                        IN  IF has1 THEN dec(d0, split[2]) ELSE d0
             hNew == [onset |-> IF onsetHit THEN "present" ELSE h.onset,
                      vowel |-> IF vowelHit THEN "present" ELSE h.vowel,
                      coda  |-> IF codaWhole \/ has0 \/ has1 THEN "present" ELSE h.coda]
         IN  yellowJamoPass(guess, i + 1,
                 [hints           |-> [st.hints EXCEPT ![i] = hNew],
                  consonantCounts |-> c2,
                  vowelCounts     |-> IF vowelHit THEN dec(st.vowelCounts, g.vowel)
                                      ELSE st.vowelCounts])

\* evaluateGuessKo of part_007: per position [syllable, jamoHints]
evaluateGuessKoCounting(guess, target) ==
    LET syllableResults == evaluateGuessSyllable(guess, target)
    IN  IF syllableResults.error # "none"
        THEN [error |-> syllableResults.error, result |-> <<>>]
        ELSE
        LET pools  == preConsume(target, syllableResults.result, 1,
                          buildJamoCounts(target, 1,
                              [consonantCounts |-> <<>>, vowelCounts |-> <<>>]))
            green  == greenJamoPass(guess, target, 1,
                          [hints           |-> initialHints(guess, target, syllableResults.result),
                           consonantCounts |-> pools.consonantCounts,
                           vowelCounts     |-> pools.vowelCounts])
            yellow == yellowJamoPass(guess, 1, green)
        IN  [error |-> "none",
             result |-> [i \in 1..Len(guess) |->
                           [syllable  |-> syllableResults.result[i],
                            jamoHints |-> IF syllableResults.result[i] = "correct"
                                          THEN NullJamoHint ELSE yellow.hints[i]]]]

(***************************************************************************)
(* languageConfig.ts                                                       *)
(***************************************************************************)
EN_WORD_LENGTH == 5
KO_WORD_LENGTH == 2

wordLength(language) == IF language = "ko" THEN KO_WORD_LENGTH ELSE EN_WORD_LENGTH

isLatinLetter(c) == (c >= 97 /\ c <= 122) \/ (c >= 65 /\ c <= 90)

\* validateCharRegex.test(s): /^[a-zA-Z]+$/ and /^[가-힣]+$/
validateCharRegexTest(language, s) ==
    /\ Len(s) >= 1
    /\ \A i \in 1..Len(s) :
         IF language = "ko" THEN isHangulSyllable(s[i]) ELSE isLatinLetter(s[i])

\* s.replace(filterCharRegex, ''): /[^a-z]/g and /[^가-힣]/g
keptByFilter(language, c) ==
    IF language = "ko" THEN isHangulSyllable(c) ELSE (c >= 97 /\ c <= 122)

RECURSIVE replaceFilterCharRegex(_, _)
replaceFilterCharRegex(language, s) ==
    IF s = <<>> THEN <<>>
    ELSE (IF keptByFilter(language, Head(s)) THEN <<Head(s)>> ELSE <<>>)
         \o replaceFilterCharRegex(language, Tail(s))

(***************************************************************************)
(* game.ts                                                                 *)
(***************************************************************************)
\* koResults is optional in the source; the code reads it only through
\* (koResults || []) and koResults?.[length - 1], so absent and [] are one
\* value here, <<>>.
createBoardState(targetWord) ==
    [targetWord    |-> toLowerCase(targetWord),
     guesses       |-> <<>>,
     results       |-> <<>>,
     koResults     |-> <<>>,
     solved        |-> FALSE,
     solvedOnGuess |-> Null]

\* config.language may be "undefined" (the default 'en' applies)
createGame(config) ==
    [boards       |-> [b \in 1..4 |-> createBoardState(config.targetWords[b])],
     currentGuess |-> <<>>,
     guessCount   |-> 0,
     maxGuesses   |-> config.maxGuesses,
     gameOver     |-> FALSE,
     won          |-> FALSE,
     language     |-> IF config.language = "undefined" THEN "en" ELSE config.language]

\* validateGuess without its character test (only the length is looked at)
validateGuess_lengthOnly(guess, language) ==
    IF Len(guess) # wordLength(language) THEN [valid |-> FALSE, error |-> "length"]
    ELSE [valid |-> TRUE, error |-> "none"]

validateGuess(guess, language) ==
    IF Len(guess) # wordLength(language) THEN [valid |-> FALSE, error |-> "length"]
    ELSE IF ~validateCharRegexTest(language, guess) THEN [valid |-> FALSE, error |-> "chars"]
    ELSE [valid |-> TRUE, error |-> "none"]

normalizeGuess(guess, language) == IF language = "ko" THEN guess ELSE toLowerCase(guess)

\* solvedOnGuess: solved ? state.guessCount + 1 : null, with a 0-indexed variant
solvedOnGuessOf_zeroIndexed(solved, guessCount) == IF solved THEN guessCount ELSE Null

solvedOnGuessOf(solved, guessCount) == IF solved THEN guessCount + 1 ELSE Null

\* the callback of state.boards.map without its branch for solved boards:
\* every board is evaluated again
newBoard_reEvaluate(board, normalizedGuess, language, guessCount) ==
    IF language = "ko"
    THEN LET syllableResult == evaluateGuessSyllable(normalizedGuess, board.targetWord).result
             koResult       == evaluateGuessKo(normalizedGuess, board.targetWord).result
             solved         == isSolved(syllableResult)
         IN  [board EXCEPT
                !.guesses       = Append(@, normalizedGuess),
                !.results       = Append(@, syllableResult),
                !.koResults     = Append(@, koResult),
                !.solved        = solved,
                !.solvedOnGuess = solvedOnGuessOf(solved, guessCount)]
    ELSE LET result == evaluateGuess(normalizedGuess, board.targetWord).result
             solved == isSolved(result)
         IN  [board EXCEPT
                !.guesses       = Append(@, normalizedGuess),
                !.results       = Append(@, result),
                !.solved        = solved,
                !.solvedOnGuess = solvedOnGuessOf(solved, guessCount)]

\* the callback of state.boards.map repeating the last row of any board
\* that has one, solved or not
newBoard_staleRow(board, normalizedGuess, language, guessCount) ==
    IF board.results # <<>>
    THEN [board EXCEPT
            !.guesses   = Append(@, normalizedGuess),
            !.results   = Append(@, board.results[Len(board.results)]),
            !.koResults = IF language = "ko"
                          THEN Append(@, board.koResults[Len(board.koResults)])
                          ELSE @]
    ELSE newBoard_reEvaluate(board, normalizedGuess, language, guessCount)

\* the callback of state.boards.map returning a solved board as it is,
\* without the guess
newBoard_solvedUntouched(board, normalizedGuess, language, guessCount) ==
    IF board.solved THEN board
    ELSE newBoard_reEvaluate(board, normalizedGuess, language, guessCount)

\* the callback of state.boards.map in submitGuess, for one board; called
\* only when the evaluator does not throw on it
newBoard(board, normalizedGuess, language, guessCount) ==
    IF board.solved
    THEN LET prevResult == board.results[Len(board.results)]
         IN  [board EXCEPT
                !.guesses   = Append(@, normalizedGuess),
                !.results   = Append(@, prevResult),
                !.koResults = IF language = "ko" /\ board.koResults # <<>>
                              THEN Append(@, board.koResults[Len(board.koResults)])
                              ELSE @]
    ELSE IF language = "ko"
    THEN LET syllableResult == evaluateGuessSyllable(normalizedGuess, board.targetWord).result
             koResult       == evaluateGuessKo(normalizedGuess, board.targetWord).result
             solved         == isSolved(syllableResult)
         IN  [board EXCEPT
                !.guesses       = Append(@, normalizedGuess),
                !.results       = Append(@, syllableResult),
                !.koResults     = Append(@, koResult),
                !.solved        = solved,
                !.solvedOnGuess = solvedOnGuessOf(solved, guessCount)]
    ELSE LET result == evaluateGuess(normalizedGuess, board.targetWord).result
             solved == isSolved(result)
         IN  [board EXCEPT
                !.guesses       = Append(@, normalizedGuess),
                !.results       = Append(@, result),
                !.solved        = solved,
                !.solvedOnGuess = solvedOnGuessOf(solved, guessCount)]

\* the evaluator throws inside boards.map: some unsolved board's target has
\* another length than the guess
evaluatorThrows(state, normalizedGuess) ==
    \E b \in 1..4 :
        /\ ~state.boards[b].solved
        /\ IF state.language = "ko"
           THEN evaluateGuessSyllable(normalizedGuess, state.boards[b].targetWord).error # "none"
           ELSE evaluateGuess(normalizedGuess, state.boards[b].targetWord).error # "none"

\* const newGuessCount = state.guessCount + 1, and without the increment
newGuessCount_same(state) == state.guessCount

newGuessCount(state) == state.guessCount + 1

\* const allSolved = newBoards.every((b) => b.solved), and with some for every
allSolved_some(newBoards) == \E b \in 1..4 : newBoards[b].solved

allSolved(newBoards) == \A b \in 1..4 : newBoards[b].solved

\* const outOfGuesses = newGuessCount >= state.maxGuesses
outOfGuesses(guessCount, maxGuesses) == guessCount >= maxGuesses

\* submitGuess past its two early returns: [error, state]; with error #
\* "none" the call threw and returned nothing (state is then the input)
submitAccepted(state, guess) ==
    LET language        == state.language
        normalizedGuess == normalizeGuess(guess, language)
    IN  IF evaluatorThrows(state, normalizedGuess)
        THEN [error |-> "LengthMismatch", state |-> state]
        ELSE
        LET mapped(board) == newBoard(board, normalizedGuess, language, state.guessCount)
            newBoards == << mapped(state.boards[1]), mapped(state.boards[2]),
                            mapped(state.boards[3]), mapped(state.boards[4]) >>
        IN  [error |-> "none",
             state |-> [state EXCEPT
                          !.boards       = newBoards,
                          !.currentGuess = <<>>,
                          !.guessCount   = newGuessCount(state),
                          !.gameOver     = allSolved(newBoards)
                                           \/ outOfGuesses(newGuessCount(state),
                                                           state.maxGuesses),
                          !.won          = allSolved(newBoards)]]

\* submitGuess without its first early return (if (state.gameOver) return state)
submitGuess_noGameOverReturn(state, guess) ==
    IF ~validateGuess(guess, state.language).valid THEN [error |-> "none", state |-> state]
    ELSE submitAccepted(state, guess)

submitGuess(state, guess) ==
    IF state.gameOver THEN [error |-> "none", state |-> state]
    ELSE IF ~validateGuess(guess, state.language).valid THEN [error |-> "none", state |-> state]
    ELSE submitAccepted(state, guess)

setCurrentGuess(state, guess) ==
    IF state.gameOver THEN state
    ELSE LET language == state.language
             limited  ==
               IF language = "ko"
               THEN slice0(replaceFilterCharRegex(language, guess), wordLength(language))
               ELSE replaceFilterCharRegex(language,
                        toLowerCase(slice0(guess, wordLength(language))))
         IN  [state EXCEPT !.currentGuess = limited]

getRemainingGuesses(state) == state.maxGuesses - state.guessCount

getSolvedCount(state) == Cardinality({ b \in 1..4 : state.boards[b].solved })

\* one tile folded into statuses with no precedence: the last tile wins
applyTileStatus_lastWins(statuses, key, tileStatus) == mapSet(statuses, key, tileStatus)

\* one tile folded into statuses: "Apply max precedence: correct > present > absent"
applyTileStatus(statuses, key, tileStatus) ==
    IF tileStatus = "correct" THEN mapSet(statuses, key, "correct")
    ELSE IF tileStatus = "present"
            /\ ~(key \in DOMAIN statuses /\ statuses[key] = "correct")
         THEN mapSet(statuses, key, "present")
    ELSE IF tileStatus = "absent" /\ key \notin DOMAIN statuses
         THEN mapSet(statuses, key, "absent")
    ELSE statuses

\* for (const jamo of jamos) ...
\* const statuses = {}: the object the loops below fill. statuses is a built
\* object at every iteration; TLC hands an operator its arguments unevaluated,
\* and taking the keys here evaluates the object before the loop goes on.
isBuilt(statuses) == DOMAIN statuses = DOMAIN statuses

RECURSIVE foldJamos(_, _, _)
foldJamos(statuses, jamos, tileStatus) ==
    IF ~isBuilt(statuses) \/ jamos = <<>> THEN statuses
    ELSE foldJamos(applyTileStatus(statuses, Head(jamos), tileStatus), Tail(jamos), tileStatus)

\* the inner loop over one row, idx 0-based as in the source
RECURSIVE foldRow(_, _, _, _, _)
foldRow(statuses, language, rowGuess, rowResult, idx) ==
    IF ~isBuilt(statuses) \/ idx >= Len(rowGuess) THEN statuses
    ELSE LET ch         == rowGuess[idx + 1]
             tileStatus == rowResult[idx + 1]
         IN  IF language = "ko"
             THEN IF isHangulSyllable(ch)
                  THEN LET d     == decomposeHangul(ch)
                           jamos == <<d.onset, d.vowel>>
                                    \o (IF d.coda # Null THEN <<d.coda>> ELSE <<>>)
                       IN  foldRow(foldJamos(statuses, jamos, tileStatus),
                                   language, rowGuess, rowResult, idx + 1)
                  ELSE foldRow(statuses, language, rowGuess, rowResult, idx + 1)
             ELSE foldRow(applyTileStatus(statuses, ch, tileStatus),
                          language, rowGuess, rowResult, idx + 1)

\* the skip test one row late: guessIdx > solvedOnGuess
skipRow_offByOne(board, guessIdx) ==
    board.solvedOnGuess # Null /\ guessIdx > board.solvedOnGuess

\* "Skip results for guesses made after this board was solved"
skipRow(board, guessIdx) ==
    board.solvedOnGuess # Null /\ guessIdx >= board.solvedOnGuess

\* the loop over one board's rows, guessIdx 0-based as in the source
RECURSIVE foldBoard(_, _, _, _)
foldBoard(statuses, language, board, guessIdx) ==
    IF ~isBuilt(statuses) \/ guessIdx >= Len(board.guesses) THEN statuses
    ELSE IF skipRow(board, guessIdx)
         THEN foldBoard(statuses, language, board, guessIdx + 1)
         ELSE foldBoard(foldRow(statuses, language, board.guesses[guessIdx + 1],
                                board.results[guessIdx + 1], 0),
                        language, board, guessIdx + 1)

RECURSIVE foldBoards(_, _, _, _)
foldBoards(statuses, language, boards, b) ==
    IF ~isBuilt(statuses) \/ b > Len(boards) THEN statuses
    ELSE foldBoards(foldBoard(statuses, language, boards[b], 0), language, boards, b + 1)

\* computeKeyboardMap: a function from the keys (letters, jamo) to statuses
computeKeyboardMap(state) == foldBoards(<<>>, state.language, state.boards, 1)

(***************************************************************************)
(* computeKeyboardBoardMap, the per-board variant of computeKeyboardMap.   *)
(* Its source is not among the files; it is written from the               *)
(* specification: the fold of computeKeyboardMap over the pre-solve rows   *)
(* of one board at a time, per symbol (Latin) or per jamo from the         *)
(* jamo-layer hints (Hangul), and null for a key the board has no entry    *)
(* for.                                                                    *)
(***************************************************************************)
\* the status of one slot of a guess syllable: correct with the syllable,
\* else the slot's jamo hint
slotStatus(koResult, slot) ==
    IF koResult.syllable = "correct" THEN "correct" ELSE koResult.jamoHints[slot]

\* one Hangul row folded into statuses jamo by jamo, idx 0-based
RECURSIVE foldRowJamoHints(_, _, _, _)
foldRowJamoHints(statuses, rowGuess, koRow, idx) ==
    IF ~isBuilt(statuses) \/ idx >= Len(rowGuess) THEN statuses
    ELSE LET ch == rowGuess[idx + 1]
         IN  IF isHangulSyllable(ch)
             THEN LET d  == decomposeHangul(ch)
                      s1 == applyTileStatus(statuses, d.onset,
                                            slotStatus(koRow[idx + 1], "onset"))
                      s2 == applyTileStatus(s1, d.vowel,
                                            slotStatus(koRow[idx + 1], "vowel"))
                      s3 == IF d.coda # Null
                            THEN applyTileStatus(s2, d.coda,
                                                 slotStatus(koRow[idx + 1], "coda"))
                            ELSE s2
                  IN  foldRowJamoHints(s3, rowGuess, koRow, idx + 1)
             ELSE foldRowJamoHints(statuses, rowGuess, koRow, idx + 1)

\* the pre-solve rows of one Hangul board folded into statuses
RECURSIVE foldBoardJamoHints(_, _, _)
foldBoardJamoHints(statuses, board, guessIdx) ==
    IF ~isBuilt(statuses) \/ guessIdx >= Len(board.guesses) THEN statuses
    ELSE IF skipRow(board, guessIdx)
         THEN foldBoardJamoHints(statuses, board, guessIdx + 1)
         ELSE foldBoardJamoHints(
                  foldRowJamoHints(statuses, board.guesses[guessIdx + 1],
                                   board.koResults[guessIdx + 1], 0),
                  board, guessIdx + 1)

\* the statuses of one board alone
boardStatuses(state, b) ==
    IF state.language = "ko"
    THEN foldBoardJamoHints(<<>>, state.boards[b], 0)
    ELSE foldBoard(<<>>, state.language, state.boards[b], 0)

\* computeKeyboardBoardMap: from the keys to 4 statuses, "null" where the
\* board has none
computeKeyboardBoardMap(state) ==
    LET perBoard == [b \in 1..4 |-> boardStatuses(state, b)]
        keys     == UNION { DOMAIN perBoard[b] : b \in 1..4 }
    IN  [key \in keys |->
            [b \in 1..4 |->
                IF key \in DOMAIN perBoard[b] THEN perBoard[b][key] ELSE "null"]]

(***************************************************************************)
(* The inputs the state machine is driven with.                            *)
(***************************************************************************)
\* Targets have the alphabet's word length, as the answer lists the callers
\* draw them from do.  Latin words: "ababa", "BABAB", "aabbc"; "ab" is too
\* short a guess and "ab1ba" holds a digit
LatinTargets == { <<97, 98, 97, 98, 97>>, <<66, 65, 66, 65, 66>> }

LatinGuesses == { <<97, 98, 97, 98, 97>>, <<66, 65, 66, 65, 66>>,
                  <<97, 97, 98, 98, 99>>,
                  <<97, 98>>, <<97, 98, 49, 98, 97>> }

\* Hangul words: 먹바, 바나, 가수; 먹 alone is too short a guess
KoTargets == { <<47673, 48148>>, <<48148, 45208>> }

KoGuesses == { <<47673, 48148>>, <<48148, 45208>>, <<44032, 49688>>, <<47673>> }

Guesses == LatinGuesses \cup KoGuesses

\* raw typing input: "Ab1cabc" and 바a나먹
RawInputs == { <<65, 98, 49, 99, 97, 98, 99>>, <<48148, 97, 45208, 47673>> }

GameConfigs ==
    { [targetWords |-> t, maxGuesses |-> m, language |-> l] :
        t \in [1..4 -> LatinTargets], m \in 0..MaxGuessesBound, l \in {"en", "undefined"} }
    \cup
    { [targetWords |-> t, maxGuesses |-> m, language |-> "ko"] :
        t \in [1..4 -> KoTargets], m \in 0..MaxGuessesBound }

EvIdle == [pc |-> "idle", guess |-> <<>>, target |-> <<>>,
           error |-> "none", result |-> <<>>]

(***************************************************************************)
(* Spec: a game created by createGame and driven by submitGuess and        *)
(* setCurrentGuess.                                                        *)
(***************************************************************************)
Init ==
    /\ \E config \in GameConfigs : game = createGame(config)
    /\ ev = EvIdle

\* game = submitGuess(game, guess); a throw leaves the caller's value alone
SubmitGuess ==
    \E guess \in Guesses :
        /\ game' = submitGuess(game, guess).state
        /\ UNCHANGED ev

\* game = setCurrentGuess(game, raw)
SetCurrentGuess ==
    \E raw \in RawInputs :
        /\ game' = setCurrentGuess(game, raw)
        /\ UNCHANGED ev

Next == SubmitGuess \/ SetCurrentGuess

Spec == Init /\ [][Next]_vars

(***************************************************************************)
(* StreamSpec: the game driven as in Spec by a caller that keeps the       *)
(* guesses the game took in, as it submitted them, in submission order.    *)
(* The caller sees that a guess was taken in by the state submitGuess      *)
(* returns not being the state it passed.                                  *)
(***************************************************************************)
InitStream ==
    /\ \E config \in GameConfigs : game = createGame(config)
    /\ ev = [accepted |-> <<>>]

\* next = submitGuess(game, guess); if (next !== game) accepted.push(guess);
\* game = next
StreamSubmitGuess ==
    \E guess \in Guesses :
        \E next \in { submitGuess(game, guess).state } :
            /\ game' = next
            /\ ev' = [accepted |-> IF next # game THEN Append(ev.accepted, guess)
                                   ELSE ev.accepted]

\* game = setCurrentGuess(game, raw)
StreamSetCurrentGuess ==
    \E raw \in RawInputs :
        /\ game' = setCurrentGuess(game, raw)
        /\ UNCHANGED ev

NextStream == StreamSubmitGuess \/ StreamSetCurrentGuess

StreamSpec == InitStream /\ [][NextStream]_vars

(***************************************************************************)
(* HeapSpec: the game driven as in Spec, with the objects and arrays of a  *)
(* GameState laid out on a heap.  A cell is the state object, the boards   *)
(* array, a board object, or a board's guesses, results or koResults       *)
(* array; strings and result rows are values.  An object literal or an     *)
(* array literal of the source allocates a cell, a spread copies the       *)
(* references it is given.  The caller keeps the reference it passed (arg) *)
(* with the value it had before the call (before), and goes on with the    *)
(* reference returned (ret).                                               *)
(***************************************************************************)
RECURSIVE lowestFree(_, _)
lowestFree(used, n) == IF n \notin used THEN n ELSE lowestFree(used, n + 1)

\* F applied to the value of e, which is computed once
evalOnce(e, F(_)) == CHOOSE r \in { F(x) : x \in {e} } : TRUE

\* a new object or array: the heap with the cell, and its address
alloc(heap, cell) ==
    evalOnce(heap, LAMBDA h :
    evalOnce(lowestFree(DOMAIN h, 1), LAMBDA a :
        [heap |-> (a :> cell) @@ h, addr |-> a]))

\* the value of the board object at an address
derefBoard(heap, a) ==
    [targetWord    |-> heap[a].targetWord,
     guesses       |-> heap[heap[a].guesses],
     results       |-> heap[heap[a].results],
     koResults     |-> IF heap[a].koResults = Null THEN <<>> ELSE heap[heap[a].koResults],
     solved        |-> heap[a].solved,
     solvedOnGuess |-> heap[a].solvedOnGuess]

\* the GameState value of the state object at an address
deref(heap, a) ==
    [boards       |-> [b \in 1..4 |-> derefBoard(heap, heap[heap[a].boards][b])],
     currentGuess |-> heap[a].currentGuess,
     guessCount   |-> heap[a].guessCount,
     maxGuesses   |-> heap[a].maxGuesses,
     gameOver     |-> heap[a].gameOver,
     won          |-> heap[a].won,
     language     |-> heap[a].language]

\* a board object and its arrays moved to another heap
moveBoard(to, heap, c) ==
    evalOnce(alloc(to, heap[heap[c].guesses]), LAMBDA g :
    evalOnce(alloc(g.heap, heap[heap[c].results]), LAMBDA r :
    evalOnce(IF heap[c].koResults = Null THEN [heap |-> r.heap, addr |-> Null]
             ELSE alloc(r.heap, heap[heap[c].koResults]), LAMBDA k :
        alloc(k.heap, [heap[c] EXCEPT !.guesses = g.addr, !.results = r.addr,
                                      !.koResults = k.addr]))))

\* the heap once the caller has dropped every reference but a: the cells a
\* reaches (no two of its references are to one cell), moved together by
\* the collector
compact(heap, a) ==
    evalOnce(heap[heap[a].boards], LAMBDA old :
    evalOnce(moveBoard(<<>>, heap, old[1]), LAMBDA b1 :
    evalOnce(moveBoard(b1.heap, heap, old[2]), LAMBDA b2 :
    evalOnce(moveBoard(b2.heap, heap, old[3]), LAMBDA b3 :
    evalOnce(moveBoard(b3.heap, heap, old[4]), LAMBDA b4 :
    evalOnce(alloc(b4.heap, <<b1.addr, b2.addr, b3.addr, b4.addr>>), LAMBDA t :
        alloc(t.heap, [heap[a] EXCEPT !.boards = t.addr])))))))

\* createBoardState: guesses: [], results: [] and the object literal
createBoardStateOnHeap(heap, targetWord) ==
    evalOnce(alloc(heap, <<>>), LAMBDA g :
    evalOnce(alloc(g.heap, <<>>), LAMBDA r :
        alloc(r.heap, [targetWord |-> toLowerCase(targetWord),
                       guesses |-> g.addr, results |-> r.addr, koResults |-> Null,
                       solved |-> FALSE, solvedOnGuess |-> Null])))

\* createGame: four boards, the boards array, the state object
createGameOnHeap(config) ==
    evalOnce(createBoardStateOnHeap(<<>>, config.targetWords[1]), LAMBDA b1 :
    evalOnce(createBoardStateOnHeap(b1.heap, config.targetWords[2]), LAMBDA b2 :
    evalOnce(createBoardStateOnHeap(b2.heap, config.targetWords[3]), LAMBDA b3 :
    evalOnce(createBoardStateOnHeap(b3.heap, config.targetWords[4]), LAMBDA b4 :
    evalOnce(alloc(b4.heap, <<b1.addr, b2.addr, b3.addr, b4.addr>>), LAMBDA t :
    evalOnce(createGame(config), LAMBDA v :
        alloc(t.heap, [boards |-> t.addr, currentGuess |-> v.currentGuess,
                       guessCount |-> v.guessCount, maxGuesses |-> v.maxGuesses,
                       gameOver |-> v.gameOver, won |-> v.won,
                       language |-> v.language])))))))

\* guesses grown in place: board.guesses.push(normalizedGuess)
guessesArray_push(heap, board, guesses) ==
    [heap |-> [heap EXCEPT ![board.guesses] = guesses], addr |-> board.guesses]

\* guesses: [...board.guesses, normalizedGuess], a new array
guessesArray(heap, board, guesses) == alloc(heap, guesses)

\* the callback of state.boards.map on the heap: newValue is the value
\* of the board it returns.  results and guesses are new arrays; koResults
\* is a new array where the source builds one, else the reference the
\* spread copies
newBoardOnHeap(heap, a, newValue, language) ==
    evalOnce(heap[a], LAMBDA board :
    evalOnce(guessesArray(heap, board, newValue.guesses), LAMBDA g :
    evalOnce(alloc(g.heap, newValue.results), LAMBDA r :
    evalOnce(IF language = "ko"
                  /\ (~board.solved \/ derefBoard(heap, a).koResults # <<>>)
             THEN alloc(r.heap, newValue.koResults)
             ELSE [heap |-> r.heap, addr |-> board.koResults], LAMBDA k :
        alloc(k.heap, [targetWord |-> newValue.targetWord,
                       guesses |-> g.addr, results |-> r.addr, koResults |-> k.addr,
                       solved |-> newValue.solved,
                       solvedOnGuess |-> newValue.solvedOnGuess])))))

\* the new boards, boards array and state object of a guess that was taken
\* in; next is the GameState value submitGuess returns
submittedOnHeap(heap, a, next) ==
    evalOnce(heap[heap[a].boards], LAMBDA old :
    evalOnce(newBoardOnHeap(heap, old[1], next.boards[1], next.language), LAMBDA b1 :
    evalOnce(newBoardOnHeap(b1.heap, old[2], next.boards[2], next.language), LAMBDA b2 :
    evalOnce(newBoardOnHeap(b2.heap, old[3], next.boards[3], next.language), LAMBDA b3 :
    evalOnce(newBoardOnHeap(b3.heap, old[4], next.boards[4], next.language), LAMBDA b4 :
    evalOnce(alloc(b4.heap, <<b1.addr, b2.addr, b3.addr, b4.addr>>), LAMBDA t :
        alloc(t.heap, [boards |-> t.addr,
                       currentGuess |-> next.currentGuess,
                       guessCount |-> next.guessCount,
                       maxGuesses |-> next.maxGuesses,
                       gameOver |-> next.gameOver,
                       won |-> next.won,
                       language |-> next.language])))))))

\* submitGuess on the heap: the reference returned; the early returns and a
\* throw leave the caller with the reference it passed
submitGuessOnHeap(heap, a, guess) ==
    evalOnce(deref(heap, a), LAMBDA state :
    evalOnce(submitGuess(state, guess), LAMBDA r :
        IF state.gameOver \/ ~validateGuess(guess, state.language).valid
           \/ r.error # "none"
        THEN [heap |-> heap, addr |-> a]
        ELSE submittedOnHeap(heap, a, r.state)))

\* setCurrentGuess on the heap: { ...state, currentGuess: limited } is a new
\* state object holding the boards reference of the old one
setCurrentGuessOnHeap(heap, a, guess) ==
    IF heap[a].gameOver THEN [heap |-> heap, addr |-> a]
    ELSE alloc(heap, [heap[a] EXCEPT
                        !.currentGuess = setCurrentGuess(deref(heap, a), guess).currentGuess])

MaxHeapGuesses == 2

HeapConfigs == { config \in GameConfigs : config.maxGuesses <= MaxHeapGuesses }

InitHeap ==
    \E config \in HeapConfigs :
        \E c \in { createGameOnHeap(config) } :
            /\ game = deref(c.heap, c.addr)
            /\ ev = [op |-> "createGame", heap |-> c.heap, arg |-> Null,
                     before |-> game, ret |-> c.addr]

\* the state after a call that was given the reference a and returned r
afterHeapCall(op, heap, a, r) ==
    [op |-> op, heap |-> r.heap, arg |-> a, before |-> deref(heap, a), ret |-> r.addr]

\* ret = submitGuess(ret, guess)
HeapSubmitGuess ==
    \E guess \in Guesses :
        \E c \in { compact(ev.heap, ev.ret) } :
            \E r \in { submitGuessOnHeap(c.heap, c.addr, guess) } :
                /\ ev' = afterHeapCall("submitGuess", c.heap, c.addr, r)
                /\ game' = deref(r.heap, r.addr)

\* ret = setCurrentGuess(ret, raw)
HeapSetCurrentGuess ==
    \E raw \in RawInputs :
        \E c \in { compact(ev.heap, ev.ret) } :
            \E r \in { setCurrentGuessOnHeap(c.heap, c.addr, raw) } :
                /\ ev' = afterHeapCall("setCurrentGuess", c.heap, c.addr, r)
                /\ game' = deref(r.heap, r.addr)

NextHeap == HeapSubmitGuess \/ HeapSetCurrentGuess

HeapSpec == InitHeap /\ [][NextHeap]_vars

(***************************************************************************)
(* EvalSpec: one call of evaluateGuess on every pair of words over a small *)
(* alphabet ("a", "b", "c" and "A"), equal lengths or not.                 *)
(***************************************************************************)
EvalAlphabet == { 97, 98, 99, 65 }

EvalWords == UNION { [1..n -> EvalAlphabet] : n \in 0..MaxEvalLen }

EvalGame ==
    createGame([targetWords |-> [b \in 1..4 |-> <<97, 98, 97, 98, 97>>],
                maxGuesses |-> 1, language |-> "en"])

InitEval ==
    /\ game = EvalGame
    /\ \E guess \in EvalWords, target \in EvalWords :
         ev = [pc |-> "called", guess |-> guess, target |-> target,
               error |-> "none", result |-> <<>>]

\* result = evaluateGuess(guess, target)
EvaluateGuess ==
    /\ ev.pc = "called"
    /\ LET r == evaluateGuess(ev.guess, ev.target)
       IN  ev' = [ev EXCEPT !.pc = "returned", !.error = r.error, !.result = r.result]
    /\ UNCHANGED game

NextEval == EvaluateGuess

EvalSpec == InitEval /\ [][NextEval]_vars

(***************************************************************************)
(* ContractSpec: one call of either evaluator, evaluateGuess or            *)
(* evaluateGuessSyllable, on every pair of strings over "a", "A", "b",     *)
(* U+0130 and the syllable 가, equal lengths or not.                       *)
(***************************************************************************)
MaxContractLen == 2

ContractSymbols == { 97, 65, 98, 304, 44032 }

ContractWords == UNION { [1..n -> ContractSymbols] : n \in 0..MaxContractLen }

InitContract ==
    /\ game = EvalGame
    /\ \E guess \in ContractWords, target \in ContractWords :
         ev = [pc |-> "called", fn |-> "none", guess |-> guess, target |-> target,
               error |-> "none", result |-> <<>>]

\* result = evaluateGuess(guess, target)
CallEvaluateGuess ==
    /\ ev.pc = "called"
    /\ LET r == evaluateGuess(ev.guess, ev.target)
       IN  ev' = [ev EXCEPT !.pc = "returned", !.fn = "evaluateGuess",
                            !.error = r.error, !.result = r.result]
    /\ UNCHANGED game

\* result = evaluateGuessSyllable(guess, target)
CallEvaluateGuessSyllable ==
    /\ ev.pc = "called"
    /\ LET r == evaluateGuessSyllable(ev.guess, ev.target)
       IN  ev' = [ev EXCEPT !.pc = "returned", !.fn = "evaluateGuessSyllable",
                            !.error = r.error, !.result = r.result]
    /\ UNCHANGED game

NextContract == CallEvaluateGuess \/ CallEvaluateGuessSyllable

ContractSpec == InitContract /\ [][NextContract]_vars

(***************************************************************************)
(* CodecSpec: one call of decomposeHangul or of composeHangul on arguments *)
(* inside and outside the tables: characters on both sides of the two ends *)
(* of the syllable range, jamo that belong to another slot (ㄳ is a final  *)
(* but no onset, ㄸ an onset but no final), a Latin letter, the empty      *)
(* string and, for the coda, null.                                         *)
(***************************************************************************)
CodecChars == { HANGUL_BASE - 1, HANGUL_BASE, HANGUL_LAST, HANGUL_LAST + 1,
                97, 12593, EmptyString }

CodecOnsets == { 12593, 12622, 12595, 12623, 97, EmptyString }

CodecVowels == { 12623, 12643, 12593, 97, EmptyString }

CodecCodas == { Null, EmptyString, 12593, 12595, 12600, 12623, 97 }

InitCodec ==
    /\ game = EvalGame
    /\ \E char \in CodecChars, onset \in CodecOnsets,
          vowel \in CodecVowels, coda \in CodecCodas :
         ev = [pc |-> "called", char |-> char,
               onset |-> onset, vowel |-> vowel, coda |-> coda,
               error |-> "none", result |-> Null]

\* result = decomposeHangul(char)
CallDecomposeHangul ==
    /\ ev.pc = "called"
    /\ LET r == decomposeHangulOrThrow(ev.char)
       IN  ev' = [ev EXCEPT !.pc = "decomposed", !.error = r.error, !.result = r.result]
    /\ UNCHANGED game

\* result = composeHangul(onset, vowel, coda)
CallComposeHangul ==
    /\ ev.pc = "called"
    /\ LET r == composeHangul(ev.onset, ev.vowel, ev.coda)
       IN  ev' = [ev EXCEPT !.pc = "composed", !.error = r.error, !.result = r.result]
    /\ UNCHANGED game

NextCodec == CallDecomposeHangul \/ CallComposeHangul

CodecSpec == InitCodec /\ [][NextCodec]_vars

(***************************************************************************)
(* ValidateSpec: one call of validateGuess, in either alphabet or with the *)
(* language left out, on every string of up to MaxValidateLen code units   *)
(* over "a", "Z" and 가, on "apple" (a word of the answer list), and on    *)
(* "aaaaa" and 가가 with one code unit replaced by a character next to a   *)
(* class's ends ("@", "[", "`", "{", U+ABFF, U+D7A4), at them ("A", "z",   *)
(* 힣), a digit or a line feed.                                            *)
(***************************************************************************)
MaxValidateLen == 6

ValidateEdgeChars == { 64, 65, 91, 96, 122, 123, 49, 10,
                       HANGUL_BASE - 1, HANGUL_LAST, HANGUL_LAST + 1 }

ValidateWords ==
    UNION { [1..n -> { 97, 90, 44032 }] : n \in 0..MaxValidateLen }
    \cup { <<97, 112, 112, 108, 101>> }
    \cup { [w EXCEPT ![i] = c] :
             w \in { <<97, 97, 97, 97, 97>> }, i \in 1..5, c \in ValidateEdgeChars }
    \cup { [w EXCEPT ![i] = c] :
             w \in { <<44032, 44032>> }, i \in 1..2, c \in ValidateEdgeChars }

InitValidate ==
    /\ game = EvalGame
    /\ \E guess \in ValidateWords, language \in { "en", "ko", "undefined" } :
         ev = [pc |-> "called", guess |-> guess, language |-> language,
               thrown |-> FALSE, result |-> [valid |-> FALSE, error |-> "none"]]

\* result = validateGuess(guess, language); language = 'en' when left out.
\* A length comparison and a regex test on a string throw nothing.
CallValidateGuess ==
    /\ ev.pc = "called"
    /\ ev' = [ev EXCEPT !.pc = "returned",
                        !.result = validateGuess(ev.guess,
                                       IF ev.language = "undefined" THEN "en"
                                       ELSE ev.language)]
    /\ UNCHANGED game

NextValidate == CallValidateGuess

ValidateSpec == InitValidate /\ [][NextValidate]_vars

(***************************************************************************)
(* KoEvalSpec: one call of evaluateGuessKo on every pair of words over a   *)
(* small set of symbols (가, 각, 닭, 달, 먹, 바 and "a"), equal lengths or *)
(* not.  The sources hold two evaluateGuessKo: the one of evaluatorKo.ts   *)
(* and the one with counted pools; a call runs either.                     *)
(***************************************************************************)
MaxKoLen == 2

KoSymbols == { 44032, 44033, 45805, 45804, 47673, 48148, 97 }

KoWords == UNION { [1..n -> KoSymbols] : n \in 0..MaxKoLen }

InitKoEval ==
    /\ game = EvalGame
    /\ \E guess \in KoWords, target \in KoWords :
         ev = [pc |-> "called", guess |-> guess, target |-> target,
               error |-> "none", result |-> <<>>, source |-> "none"]

\* result = evaluateGuessKo(guess, target), evaluatorKo.ts
EvaluateGuessKo ==
    /\ ev.pc = "called"
    /\ LET r == evaluateGuessKo(ev.guess, ev.target)
       IN  ev' = [ev EXCEPT !.pc = "returned", !.error = r.error, !.result = r.result,
                            !.source = "evaluatorKo.ts"]
    /\ UNCHANGED game

\* result = evaluateGuessKo(guess, target), the source with counted pools
EvaluateGuessKoCounting ==
    /\ ev.pc = "called"
    /\ LET r == evaluateGuessKoCounting(ev.guess, ev.target)
       IN  ev' = [ev EXCEPT !.pc = "returned", !.error = r.error, !.result = r.result,
                            !.source = "part_007"]
    /\ UNCHANGED game

NextKoEval == EvaluateGuessKo \/ EvaluateGuessKoCounting

KoEvalSpec == InitKoEval /\ [][NextKoEval]_vars

(***************************************************************************)
(* daily.ts -- 32-bit arithmetic.  A 32-bit word is <<high, low>>, two     *)
(* 16-bit halves; every operation keeps the width of the JavaScript        *)
(* operator it stands for (<<, >>>, ^, |, Math.imul, >>> 0).               *)
(***************************************************************************)
W16 == 65536

RECURSIVE xorBits(_, _, _)
xorBits(a, b, n) ==
    IF n = 0 THEN 0
    ELSE (((a % 2) + (b % 2)) % 2) + 2 * xorBits(a \div 2, b \div 2, n - 1)

RECURSIVE orBits(_, _, _)
orBits(a, b, n) ==
    IF n = 0 THEN 0
    ELSE (IF (a % 2) = 1 \/ (b % 2) = 1 THEN 1 ELSE 0) + 2 * orBits(a \div 2, b \div 2, n - 1)

\* ^ and | on 4 bits, tabulated
XOR4 == [a \in 0..15 |-> [b \in 0..15 |-> xorBits(a, b, 4)]]

OR4 == [a \in 0..15 |-> [b \in 0..15 |-> orBits(a, b, 4)]]

\* ^ on 16 bits, four bits at a time
xor16(a, b) ==
    XOR4[a % 16][b % 16]
      + 16 * XOR4[(a \div 16) % 16][(b \div 16) % 16]
      + 256 * XOR4[(a \div 256) % 16][(b \div 256) % 16]
      + 4096 * XOR4[a \div 4096][b \div 4096]

\* | on 16 bits, four bits at a time
or16(a, b) ==
    OR4[a % 16][b % 16]
      + 16 * OR4[(a \div 16) % 16][(b \div 16) % 16]
      + 256 * OR4[(a \div 256) % 16][(b \div 256) % 16]
      + 4096 * OR4[a \div 4096][b \div 4096]

\* x ^ y
xor32(x, y) == <<xor16(x[1], y[1]), xor16(x[2], y[2])>>

\* x | y
or32(x, y) == <<or16(x[1], y[1]), or16(x[2], y[2])>>

\* (x + y) modulo 2^32
add32(x, y) ==
    LET low == x[2] + y[2]
    IN  <<(x[1] + y[1] + (low \div W16)) % W16, low % W16>>

\* x >>> k, 0 < k < 16
shr32(x, k) ==
    <<x[1] \div (2^k), (x[2] \div (2^k)) + (x[1] % (2^k)) * (2^(16 - k))>>

\* x << k, 0 < k < 16
shl32(x, k) ==
    <<(x[1] * (2^k) + (x[2] \div (2^(16 - k)))) % W16, (x[2] * (2^k)) % W16>>

\* the low and the high 16 bits of the product of two 16-bit numbers
mulLow16(a, b) == ((a * (b % 256)) + ((a * (b \div 256)) % 256) * 256) % W16

mulHigh16(a, b) ==
    (((a * (b % 256)) + ((a * (b \div 256)) % 256) * 256) \div W16) + ((a * (b \div 256)) \div 256)

\* Math.imul(x, y): the low 32 bits of the product
imul(x, y) ==
    <<(mulHigh16(x[2], y[2]) + mulLow16(x[1], y[2]) + mulLow16(x[2], y[1])) % W16,
      mulLow16(x[2], y[2])>>

\* x >>> 0: x is a 32-bit unsigned word
isUint32(x) == x[1] \in 0..(W16 - 1) /\ x[2] \in 0..(W16 - 1)

\* djb2 over the first n code units of dateKey: hash = 5381, then
\* ((hash << 5) + hash) ^ charCode for each unit
RECURSIVE hashUpTo(_, _)
hashUpTo(dateKey, n) ==
    IF n = 0 THEN <<0, 5381>>
    ELSE LET hash == hashUpTo(dateKey, n - 1)
         IN  IF ~isUint32(hash) THEN hash
             ELSE xor32(add32(shl32(hash, 5), hash), <<0, dateKey[n]>>)

\* dateKeyToSeed
dateKeyToSeed(dateKey) == hashUpTo(dateKey, Len(dateKey))

\* mulberry32 going on from the state the last generator was left in
mulberry32_sharedState(seed) == IF ev.prng # <<>> THEN ev.prng ELSE seed

\* mulberry32(seed): the state of the generator it returns
mulberry32(seed) == seed

\* one call of the generator: the new state and the 32-bit numerator of
\* the returned fraction
random(state) ==
    LET next == add32(state, <<27947, 31221>>)
        t1   == imul(xor32(next, shr32(next, 15)), or32(next, <<0, 1>>))
        t2   == xor32(t1, add32(t1, imul(xor32(t1, shr32(t1, 7)), or32(t1, <<0, 61>>))))
    IN  [state |-> next, value |-> xor32(t2, shr32(t2, 14))]

\* Math.floor(value / 4294967296 * length)
floorScale(value, length) ==
    ((value[1] * length) + ((value[2] * length) \div W16)) \div W16

\* selectDistinctIndices: the indices drawn, and the generator's state
RECURSIVE selectDistinctIndices(_, _, _, _)
selectDistinctIndices(length, count, state, indices) ==
    IF Len(indices) >= count \/ ~isUint32(state) THEN [indices |-> indices, state |-> state]
    ELSE LET r   == random(state)
             idx == floorScale(r.value, length)
         IN  IF \E n \in 1..Len(indices) : indices[n] = idx
             THEN selectDistinctIndices(length, count, r.state, indices)
             ELSE selectDistinctIndices(length, count, r.state, Append(indices, idx))

\* WORD_LIST (words.ts), the answer words of the Latin game, as code units
WORD_LIST ==
    <<
       <<97, 112, 112, 108, 101>>, <<98, 101, 97, 99, 104>>, <<99, 104, 97, 105, 114>>,
       <<100, 97, 110, 99, 101>>, <<101, 97, 103, 108, 101>>, <<102, 108, 97, 109, 101>>,
       <<103, 114, 97, 112, 101>>, <<104, 111, 117, 115, 101>>, <<105, 109, 97, 103, 101>>,
       <<106, 117, 105, 99, 101>>, <<107, 110, 105, 102, 101>>, <<108, 101, 109, 111, 110>>,
       <<109, 111, 117, 115, 101>>, <<110, 105, 103, 104, 116>>, <<111, 99, 101, 97, 110>>,
       <<112, 105, 97, 110, 111>>, <<113, 117, 101, 101, 110>>, <<114, 105, 118, 101, 114>>,
       <<115, 116, 111, 110, 101>>, <<116, 97, 98, 108, 101>>, <<117, 108, 116, 114, 97>>,
       <<118, 105, 118, 105, 100>>, <<119, 97, 116, 101, 114>>, <<120, 101, 110, 111, 110>>,
       <<121, 111, 117, 116, 104>>, <<122, 101, 98, 114, 97>>, <<98, 114, 97, 118, 101>>,
       <<99, 114, 97, 110, 101>>, <<100, 114, 101, 97, 109>>, <<102, 114, 111, 115, 116>>,
       <<103, 104, 111, 115, 116>>, <<104, 101, 97, 114, 116>>, <<105, 110, 100, 101, 120>>,
       <<106, 111, 107, 101, 114>>, <<107, 97, 114, 109, 97>>, <<108, 97, 115, 101, 114>>,
       <<109, 101, 116, 97, 108>>, <<110, 111, 98, 108, 101>>, <<111, 114, 98, 105, 116>>,
       <<112, 101, 97, 114, 108>>, <<113, 117, 101, 115, 116>>, <<114, 97, 100, 97, 114>>,
       <<115, 111, 108, 97, 114>>, <<116, 114, 97, 105, 110>>, <<117, 110, 105, 116, 121>>,
       <<118, 111, 105, 99, 101>>, <<119, 104, 97, 108, 101>>, <<120, 101, 114, 111, 120>>,
       <<121, 105, 101, 108, 100>>, <<122, 111, 110, 101, 115>>, <<97, 98, 111, 117, 116>>,
       <<97, 98, 111, 118, 101>>, <<97, 98, 117, 115, 101>>, <<97, 99, 116, 111, 114>>,
       <<97, 99, 117, 116, 101>>, <<97, 100, 109, 105, 116>>, <<97, 100, 111, 112, 116>>,
       <<97, 100, 117, 108, 116>>, <<97, 102, 116, 101, 114>>, <<97, 103, 97, 105, 110>>,
       <<97, 103, 101, 110, 116>>, <<97, 103, 114, 101, 101>>, <<97, 104, 101, 97, 100>>,
       <<97, 108, 97, 114, 109>>, <<97, 108, 98, 117, 109>>, <<97, 108, 101, 114, 116>>,
       <<97, 108, 105, 107, 101>>, <<97, 108, 105, 118, 101>>, <<97, 108, 108, 111, 119>>,
       <<97, 108, 111, 110, 101>>, <<97, 108, 111, 110, 103>>, <<97, 108, 116, 101, 114>>,
       <<97, 109, 105, 110, 111>>, <<97, 109, 111, 110, 103>>, <<97, 110, 103, 101, 108>>,
       <<97, 110, 103, 101, 114>>, <<97, 110, 103, 108, 101>>, <<97, 110, 103, 114, 121>>,
       <<97, 112, 97, 114, 116>>, <<97, 114, 101, 110, 97>>, <<97, 114, 103, 117, 101>>,
       <<97, 114, 105, 115, 101>>, <<97, 114, 109, 111, 114>>, <<97, 114, 111, 109, 97>>,
       <<97, 114, 114, 97, 121>>, <<97, 114, 114, 111, 119>>, <<97, 115, 115, 101, 116>>,
       <<97, 118, 111, 105, 100>>, <<97, 119, 97, 114, 100>>, <<97, 119, 97, 114, 101>>,
       <<98, 97, 99, 111, 110>>, <<98, 97, 100, 103, 101>>, <<98, 97, 115, 105, 99>>,
       <<98, 97, 115, 105, 110>>, <<98, 97, 116, 99, 104>>, <<98, 101, 103, 97, 110>>,
       <<98, 101, 103, 105, 110>>, <<98, 101, 105, 110, 103>>, <<98, 101, 108, 111, 119>>,
       <<98, 101, 110, 99, 104>>, <<98, 101, 114, 114, 121>>, <<98, 108, 97, 99, 107>>,
       <<98, 108, 97, 100, 101>>, <<98, 108, 97, 109, 101>>, <<98, 108, 97, 110, 107>>,
       <<98, 108, 97, 115, 116>>, <<98, 108, 97, 122, 101>>, <<98, 108, 101, 110, 100>>,
       <<98, 108, 101, 115, 115>>, <<98, 108, 105, 110, 100>>, <<98, 108, 111, 99, 107>>,
       <<98, 108, 111, 111, 109>>, <<98, 111, 97, 114, 100>>, <<98, 111, 110, 117, 115>>,
       <<98, 111, 111, 115, 116>>, <<98, 114, 97, 105, 110>>, <<98, 114, 97, 110, 100>>,
       <<98, 114, 101, 97, 100>>, <<98, 114, 101, 97, 107>>, <<98, 114, 101, 101, 100>>,
       <<98, 114, 105, 99, 107>>, <<98, 114, 105, 101, 102>>, <<98, 114, 105, 110, 103>>,
       <<98, 114, 111, 97, 100>>, <<98, 114, 111, 111, 107>>, <<98, 114, 111, 119, 110>>,
       <<98, 114, 117, 115, 104>>, <<98, 117, 105, 108, 100>>, <<98, 117, 110, 99, 104>>,
       <<98, 117, 114, 115, 116>>, <<99, 97, 98, 105, 110>>, <<99, 97, 98, 108, 101>>,
       <<99, 97, 110, 100, 121>>, <<99, 97, 114, 103, 111>>, <<99, 97, 114, 114, 121>>,
       <<99, 97, 116, 99, 104>>, <<99, 97, 117, 115, 101>>, <<99, 104, 97, 105, 110>>,
       <<99, 104, 97, 108, 107>>, <<99, 104, 97, 109, 112>>, <<99, 104, 97, 114, 109>>,
       <<99, 104, 97, 115, 101>>, <<99, 104, 101, 97, 112>>, <<99, 104, 101, 99, 107>>,
       <<99, 104, 101, 115, 115>>, <<99, 104, 101, 115, 116>>, <<99, 104, 105, 108, 100>>,
       <<99, 104, 105, 110, 97>>, <<99, 104, 117, 110, 107>>, <<99, 105, 118, 105, 99>>,
       <<99, 105, 118, 105, 108>>, <<99, 108, 97, 105, 109>>, <<99, 108, 97, 115, 104>>,
       <<99, 108, 97, 115, 115>>, <<99, 108, 101, 97, 110>>, <<99, 108, 101, 97, 114>>,
       <<99, 108, 101, 114, 107>>, <<99, 108, 105, 99, 107>>, <<99, 108, 105, 102, 102>>,
       <<99, 108, 105, 109, 98>>, <<99, 108, 111, 99, 107>>, <<99, 108, 111, 115, 101>>,
       <<99, 108, 111, 116, 104>>, <<99, 108, 111, 117, 100>>, <<99, 111, 97, 99, 104>>,
       <<99, 111, 97, 115, 116>>, <<99, 111, 117, 108, 100>>, <<99, 111, 117, 110, 116>>,
       <<99, 111, 117, 114, 116>>, <<99, 111, 118, 101, 114>>, <<99, 114, 97, 102, 116>>,
       <<99, 114, 97, 115, 104>>, <<99, 114, 97, 119, 108>>, <<99, 114, 97, 122, 121>>,
       <<99, 114, 101, 97, 109>>, <<99, 114, 101, 101, 107>>, <<99, 114, 101, 101, 112>>,
       <<99, 114, 105, 109, 101>>, <<99, 114, 105, 115, 112>>, <<99, 114, 111, 115, 115>>,
       <<99, 114, 111, 119, 100>>, <<99, 114, 111, 119, 110>>, <<99, 114, 117, 100, 101>>,
       <<99, 114, 117, 101, 108>>, <<99, 114, 117, 115, 104>>, <<99, 117, 114, 118, 101>>,
       <<99, 121, 99, 108, 101>>, <<100, 97, 105, 114, 121>>, <<100, 101, 97, 108, 116>>,
       <<100, 101, 97, 116, 104>>, <<100, 101, 98, 117, 116>>, <<100, 101, 99, 97, 121>>,
       <<100, 101, 108, 116, 97>>, <<100, 101, 110, 115, 101>>, <<100, 101, 112, 111, 116>>,
       <<100, 101, 112, 116, 104>>, <<100, 105, 114, 116, 121>>, <<100, 105, 115, 99, 111>>,
       <<100, 111, 117, 98, 116>>, <<100, 111, 117, 103, 104>>
    >>

\* KO_WORD_LIST of the server's copy of the selector, as code units
KO_WORD_LIST ==
    <<
       <<49324, 44284, 45208>>, <<48148, 45208, 45208>>, <<44256, 44396, 47560>>, <<44048, 51088, 53461>>,
       <<44608, 52824, 52236>>, <<46972, 47732, 51665>>, <<48520, 44256, 44592>>, <<48708, 48724, 48165>>,
       <<49340, 44217, 49332>>, <<46108, 51109, 52236>>, <<46497, 48374, 51060>>, <<52824, 53416, 51665>>,
       <<45257, 47732, 51665>>, <<49692, 46160, 48512>>, <<51105, 52292, 48165>>, <<44608, 48165, 51665>>,
       <<44040, 48708, 53461>>, <<49444, 47105, 53461>>, <<54644, 47932, 53461>>, <<45805, 44040, 48708>>,
       <<50724, 51669, 50612>>, <<49548, 44256, 44592>>, <<46076, 51648, 44256>>, <<48120, 50669, 44397>>,
       <<53097, 45208, 47932>>, <<49884, 44552, 52824>>, <<50577, 48176, 52628>>, <<50724, 51060, 44608>>,
       <<44621, 46160, 44592>>, <<51219, 44032, 46973>>, <<49695, 44032, 46973>>, <<45252, 48708, 46748>>,
       <<54532, 46972, 51060>>, <<51452, 51204, 51088>>, <<46020, 47560, 50948>>, <<52860, 44397, 49688>>,
       <<49688, 51228, 48708>>, <<47564, 46160, 44397>>, <<48512, 52840, 44060>>, <<54840, 46497, 51665>>,
       <<51676, 51109, 47732>>, <<51692, 48981, 51665>>, <<48374, 51020, 48165>>, <<50976, 48512, 52488>>,
       <<50612, 47925, 53461>>, <<49692, 45824, 44397>>, <<44273, 52285, 51204>>, <<51313, 48156, 51665>>,
       <<48372, 49928, 51665>>, <<52252, 45805, 51665>>, <<50500, 51060, 49828>>, <<52488, 53084, 47551>>,
       <<49324, 53461, 47448>>, <<44284, 51088, 47448>>, <<48757, 51665, 47448>>, <<52964, 54588, 49677>>,
       <<45433, 52264, 51086>>, <<54861, 52264, 51086>>, <<50864, 50976, 54057>>, <<51452, 49828, 48337>>,
       <<47560, 51012, 44600>>, <<54617, 44368, 44600>>, <<48337, 50896, 44600>>, <<49884, 51109, 44600>>,
       <<44277, 50896, 44600>>, <<46020, 49436, 44288>>, <<48120, 49696, 44288>>, <<48149, 47932, 44288>>,
       <<51020, 50501, 45817>>, <<52404, 50977, 44288>>, <<50868, 46041, 51109>>, <<49688, 50689, 51109>>,
       <<45440, 51060, 53552>>, <<44277, 54637, 50669>>, <<44592, 52264, 50669>>, <<48260, 49828, 51221>>,
       <<53469, 49884, 48708>>, <<51088, 51204, 44144>>, <<51648, 54616, 52384>>, <<44256, 49549, 46020>>,
       <<49888, 54840, 46321>>, <<54945, 45800, 48372>>, <<51452, 52264, 51109>>, <<46020, 47196, 48320>>,
       <<50500, 54028, 53944>>, <<48716, 46972, 51665>>, <<51452, 53469, 44032>>, <<50724, 54588, 49828>>,
       <<49324, 47924, 49892>>, <<54924, 51032, 49892>>, <<44368, 49892, 50504>>, <<44053, 45817, 50504>>,
       <<49885, 45817, 50504>>, <<52852, 54168, 50504>>, <<48120, 50857, 49892>>, <<49464, 53441, 49548>>,
       <<54200, 51032, 51216>>, <<50557, 44397, 50526>>, <<51008, 54665, 50526>>, <<50864, 52404, 44397>>,
       <<48277, 50896, 50526>>, <<44221, 52272, 49436>>, <<49548, 48169, 49436>>, <<48372, 44148, 49548>>,
       <<55092, 44032, 52384>>, <<50668, 47492, 52384>>, <<44200, 50872, 52384>>, <<44032, 51012, 52384>>,
       <<48388, 45208, 46308>>, <<45576, 49324, 46988>>, <<48708, 50724, 45716>>, <<48148, 46988, 44600>>,
       <<53468, 50577, 48731>>, <<48324, 48731, 48164>>, <<50620, 51020, 54032>>, <<47932, 44208, 54028>>,
       <<50504, 44060, 44867>>, <<45432, 51012, 48731>>, <<47924, 51648, 44060>>, <<44396, 47492, 50948>>,
       <<52380, 46181, 48264>>, <<44032, 51313, 49324>>, <<48512, 47784, 45784>>, <<54805, 51228, 51088>>,
       <<51088, 47588, 44036>>, <<54624, 47672, 45768>>, <<54624, 50500, 48260>>, <<49340, 52492, 45825>>,
       <<51060, 47784, 51665>>, <<44256, 47784, 51665>>, <<51312, 52852, 46392>>, <<49552, 51088, 49552>>,
       <<52828, 44396, 45348>>, <<51060, 50883, 51665>>, <<46041, 45348, 44600>>, <<47560, 51012, 54924>>,
       <<48152, 51109, 49440>>, <<54924, 51109, 45784>>, <<49324, 51109, 45784>>, <<48512, 51109, 45784>>,
       <<44284, 51109, 45784>>, <<45824, 47532, 45784>>, <<49888, 51077, 49324>>, <<51064, 53556, 49373>>,
       <<54617, 49373, 54924>>, <<44368, 49688, 45784>>, <<49440, 49373, 45784>>, <<44053, 49324, 45784>>,
       <<51032, 49324, 49440>>, <<44036, 54840, 49324>>, <<50557, 49324, 45784>>, <<48320, 54840, 49324>>,
       <<54032, 49324, 45784>>, <<44160, 49324, 45784>>, <<44221, 52272, 44288>>, <<44400, 51064, 48373>>,
       <<49548, 48169, 44288>>, <<44592, 51088, 45784>>, <<51089, 44032, 45784>>, <<54868, 44032, 45784>>,
       <<51020, 50501, 44032>>, <<48176, 50864, 45784>>, <<44048, 46021, 45784>>, <<44032, 49688, 45784>>,
       <<50836, 47532, 49324>>, <<48120, 50857, 49324>>, <<50868, 51204, 49324>>, <<44148, 52629, 44032>>,
       <<51221, 52824, 51064>>, <<44284, 54617, 51088>>, <<50672, 44396, 50896>>, <<44592, 49696, 51088>>,
       <<46356, 51088, 51064>>, <<54532, 47196, 44536>>, <<50644, 51648, 45768>>, <<47560, 52992, 54021>>,
       <<50689, 50629, 51649>>, <<54924, 44228, 49324>>, <<49464, 47924, 49324>>, <<53685, 50669, 49324>>,
       <<48264, 50669, 44032>>, <<44368, 50977, 51088>>, <<49345, 45812, 49324>>, <<51088, 50896, 48393>>,
       <<48393, 49324, 54876>>, <<45208, 47924, 44867>>, <<54400, 51086, 51460>>, <<50676, 47588, 50472>>,
       <<49100, 47532, 51460>>, <<45208, 47943, 51086>>, <<49548, 45208, 47924>>, <<52280, 45208, 47924>>,
       <<45824, 45208, 47924>>, <<48282, 45208, 47924>>, <<51008, 54665, 45208>>, <<51109, 48120, 44867>>,
       <<54644, 48148, 46972>>, <<53924, 47549, 44867>>, <<44397, 54868, 44867>>, <<48177, 54633, 44867>>,
       <<51652, 45804, 47000>>, <<47924, 44417, 54868>>, <<44060, 45208, 47532>>, <<46972, 51068, 46973>>,
       <<49688, 49440, 54868>>, <<44053, 50500, 51648>>, <<44256, 50577, 51060>>, <<53664, 45180, 54400>>,
       <<44144, 48513, 51060>>, <<50896, 49709, 51060>>, <<53076, 45180, 47532>>, <<49324, 51088, 50773>>,
       <<54840, 46993, 51060>>, <<50668, 50864, 44404>>, <<45713, 45824, 49328>>, <<46021, 49688, 47532>>,
       <<52280, 49352, 49352>>, <<48708, 46168, 44592>>, <<44620, 52824, 49352>>, <<50549, 47924, 49352>>,
       <<44552, 48533, 50612>>, <<50676, 45824, 50612>>, <<44256, 47000, 48165>>, <<46028, 44256, 47000>>,
       <<49345, 50612, 53553>>, <<45208, 48708, 44867>>, <<51104, 51088, 47532>>, <<47924, 45817, 48268>>,
       <<44060, 48120, 51665>>, <<44992, 48268, 51665>>, <<44144, 48120, 51460>>, <<47700, 46748, 44592>>,
       <<44480, 46748, 46972>>, <<45804, 54077, 51060>>, <<51648, 47105, 51060>>, <<54665, 48373, 54620>>,
       <<49836, 54548, 51032>>, <<44592, 49256, 51032>>, <<46160, 47140, 50880>>, <<48516, 45432, 51032>>,
       <<49324, 46993, 51032>>, <<55148, 47581, 52268>>, <<50857, 44592, 50752>>, <<51648, 54812, 51032>>,
       <<54217, 54868, 51032>>, <<51088, 50976, 51032>>, <<51221, 51032, 51032>>, <<51652, 49892, 51032>>,
       <<50500, 47492, 45796>>, <<44144, 51667, 47568>>, <<50557, 49549, 51032>>, <<49888, 47280, 51032>>,
       <<51316, 44221, 51032>>, <<44048, 49324, 51032>>, <<48176, 47140, 51032>>, <<52828, 51208, 54620>>,
       <<51221, 51649, 54620>>, <<49457, 49892, 54620>>, <<44216, 49552, 54620>>, <<50676, 51221, 51032>>,
       <<45432, 47141, 51032>>, <<49457, 44277, 51032>>, <<49892, 54056, 51032>>, <<46020, 51204, 51032>>,
       <<47784, 54744, 51032>>, <<52285, 51312, 51032>>, <<49345, 49345, 47141>>, <<54840, 44592, 49900>>,
       <<51665, 51473, 47141>>, <<51064, 45236, 47141>>, <<45128, 44592, 51032>>, <<51088, 49888, 44048>>,
       <<50668, 50976, 51032>>, <<44512, 54805, 51032>>, <<51312, 54868, 51032>>, <<51656, 49436, 51032>>,
       <<54844, 46024, 51032>>, <<48320, 54868, 51032>>, <<49457, 51109, 51032>>, <<48156, 51204, 51032>>,
       <<54785, 49888, 51032>>, <<51204, 53685, 51032>>, <<47928, 54868, 51032>>, <<50669, 49324, 51032>>,
       <<51088, 50672, 51032>>, <<54872, 44221, 51032>>, <<49373, 47749, 51032>>, <<44148, 44053, 51032>>,
       <<54665, 50868, 51032>>, <<44592, 51201, 51032>>, <<52628, 50613, 51032>>, <<49548, 51473, 54620>>,
       <<53945, 48324, 54620>>, <<54217, 48276, 54620>>, <<51068, 49345, 51032>>, <<49692, 44036, 51032>>,
       <<50689, 50896, 51032>>, <<49884, 51089, 51032>>, <<47560, 47924, 47532>>, <<50756, 49457, 51032>>,
       <<51456, 48708, 51032>>, <<44228, 54925, 51032>>, <<47785, 54364, 51032>>, <<44208, 44284, 51032>>,
       <<44284, 51221, 51032>>, <<48169, 48277, 51032>>, <<54644, 44208, 51032>>, <<47928, 51228, 51032>>,
       <<51656, 47928, 51032>>, <<45824, 45813, 51032>>, <<49440, 53469, 51032>>, <<44208, 51221, 51032>>,
       <<54032, 45800, 51032>>, <<51060, 54644, 51032>>, <<44277, 44048, 51032>>, <<49548, 53685, 51032>>,
       <<50672, 44208, 51032>>, <<44288, 44228, 51032>>, <<47564, 45224, 51032>>, <<51060, 48324, 51032>>,
       <<44536, 47532, 50880>>, <<44592, 45796, 47548>>, <<49444, 47112, 51076>>, <<46504, 47548, 51032>>,
       <<50883, 51020, 51032>>, <<45576, 47932, 51032>>, <<54620, 49704, 51032>>, <<44256, 48124, 51032>>,
       <<44145, 51221, 51032>>, <<50504, 49900, 51032>>, <<54200, 50504, 54632>>, <<46384, 46907, 54632>>,
       <<49884, 50896, 54632>>, <<52264, 44032, 50880>>, <<46888, 44144, 50880>>, <<48512, 46300, 47084>>,
       <<45800, 45800, 54632>>, <<44032, 48316, 50880>>, <<47924, 44144, 50880>>, <<48736, 47492, 51032>>,
       <<45712, 47548, 51032>>, <<45458, 51060, 51032>>, <<44618, 51060, 51032>>, <<45331, 51060, 51032>>,
       <<44600, 51060, 51032>>, <<47680, 47532, 49436>>, <<44032, 44620, 51060>>, <<50948, 51901, 51032>>,
       <<50500, 47000, 51901>>, <<50724, 47480, 51901>>, <<50812, 51901, 51032>>, <<50526, 51901, 51032>>,
       <<46244, 51901, 51032>>, <<50504, 51901, 51032>>, <<48148, 44645, 51901>>, <<49352, 48317, 45400>>,
       <<50500, 52840, 54663>>, <<51216, 49900, 46412>>, <<51200, 45377, 46412>>, <<54620, 48164, 51473>>,
       <<50900, 50836, 51068>>, <<54868, 50836, 51068>>, <<49688, 50836, 51068>>, <<47785, 50836, 51068>>,
       <<44552, 50836, 51068>>, <<53664, 50836, 51068>>, <<51068, 50836, 51068>>, <<50724, 45720, 45216>>,
       <<50612, 51228, 45216>>, <<45236, 51068, 45216>>, <<47784, 47112, 45216>>, <<50732, 54644, 51032>>,
       <<51089, 45380, 51032>>, <<45236, 45380, 51032>>, <<51068, 50900, 45804>>, <<51060, 50900, 45804>>,
       <<49340, 50900, 45804>>, <<49324, 50900, 45804>>, <<50724, 50900, 45804>>, <<50976, 50900, 45804>>,
       <<52832, 50900, 45804>>, <<54036, 50900, 45804>>, <<44396, 50900, 45804>>, <<49884, 50900, 45804>>
    >>

\* getDailyTargets(dateKey) of daily.ts: the four indices, the four words,
\* and the generator's state when the call returns.  The function has one
\* parameter; a second argument of a caller is not read.
getDailyTargets(dateKey, language) ==
    LET seed   == dateKeyToSeed(dateKey)
        drawn  == selectDistinctIndices(Len(WORD_LIST), 4, mulberry32(seed), <<>>)
    IN  [seedInput |-> dateKey,
         indices |-> drawn.indices,
         result  |-> [n \in 1..4 |-> WORD_LIST[drawn.indices[n] + 1]],
         state   |-> drawn.state]

\* getWordListForLanguage of the server's copy
getWordListForLanguage(language) ==
    IF language = "ko" THEN KO_WORD_LIST ELSE WORD_LIST

\* getDailyTargets(dateKey, language = 'en') of the server's copy: the seed
\* input is dateKey + ":ko" for Korean; "undefined" is the argument left out
serverGetDailyTargets(dateKey, languageArg) ==
    LET language  == IF languageArg = "undefined" THEN "en" ELSE languageArg
        seedInput == IF language = "ko" THEN dateKey \o <<58, 107, 111>> ELSE dateKey
        seed      == dateKeyToSeed(seedInput)
        wordList  == getWordListForLanguage(language)
        drawn     == selectDistinctIndices(Len(wordList), 4, mulberry32(seed), <<>>)
    IN  [seedInput |-> seedInput,
         indices |-> drawn.indices,
         result  |-> [n \in 1..4 |-> wordList[drawn.indices[n] + 1]],
         state   |-> drawn.state]

(***************************************************************************)
(* JamoSpec: every composed syllable U+AC00..U+D7A3 is decomposed and the  *)
(* jamo are composed again.                                                *)
(***************************************************************************)
InitJamo ==
    /\ game = EvalGame
    /\ \E syllable \in HANGUL_BASE..HANGUL_LAST :
         ev = [pc |-> "start", syllable |-> syllable,
               d |-> [onset |-> Null, vowel |-> Null, coda |-> Null],
               error |-> "none", result |-> Null]

\* d = decomposeHangul(syllable)
DecomposeHangul ==
    /\ ev.pc = "start"
    /\ ev' = [ev EXCEPT !.pc = "decomposed", !.d = decomposeHangul(ev.syllable)]
    /\ UNCHANGED game

\* result = composeHangul(d.onset, d.vowel, d.coda)
ComposeHangul ==
    /\ ev.pc = "decomposed"
    /\ LET r == composeHangul(ev.d.onset, ev.d.vowel, ev.d.coda)
       IN  ev' = [ev EXCEPT !.pc = "composed", !.error = r.error, !.result = r.result]
    /\ UNCHANGED game

NextJamo == DecomposeHangul \/ ComposeHangul

JamoSpec == InitJamo /\ [][NextJamo]_vars

(***************************************************************************)
(* CodaSpec: splitCompoundCoda and combineCodas on every pair of           *)
(* characters out of the compatibility jamo U+3131..U+3163, the empty      *)
(* final, "a" and 가, each followed by the other on its result.            *)
(***************************************************************************)
CodaChars == (12593..12643) \cup {Null, 97, 44032}

InitCoda ==
    /\ game = EvalGame
    /\ \E first \in CodaChars, second \in CodaChars :
         ev = [pc |-> "start", first |-> first, second |-> second,
               split |-> <<>>, combined |-> Null]

\* split = splitCompoundCoda(first); combined = split && combineCodas(split[0], split[1])
SplitCompoundCoda ==
    /\ ev.pc = "start"
    /\ LET split == splitCompoundCoda(ev.first)
       IN  ev' = [ev EXCEPT !.pc = "split", !.split = split,
                            !.combined = IF split # <<>>
                                         THEN combineCodas(split[1], split[2]) ELSE Null]
    /\ UNCHANGED game

\* combined = combineCodas(first, second); split = combined && splitCompoundCoda(combined)
CombineCodas ==
    /\ ev.pc = "start"
    /\ LET combined == combineCodas(ev.first, ev.second)
       IN  ev' = [ev EXCEPT !.pc = "combined", !.combined = combined,
                            !.split = IF combined # Null
                                      THEN splitCompoundCoda(combined) ELSE <<>>]
    /\ UNCHANGED game

NextCoda == SplitCompoundCoda \/ CombineCodas

CodaSpec == InitCoda /\ [][NextCoda]_vars

(***************************************************************************)
(* DailySpec: any sequence of calls of the two daily selectors.  The state *)
(* keeps the last call, the state its generator was left in, and one       *)
(* earlier call (any one: a call may or may not be set aside when the next *)
(* one is made) with a flag telling that another call came in between.     *)
(***************************************************************************)
MaxDateLen == 1

DateSymbols == { 48 }

\* "2025-01-01"
Date20250101 == <<50, 48, 50, 53, 45, 48, 49, 45, 48, 49>>

\* "2025-01-02"
Date20250102 == <<50, 48, 50, 53, 45, 48, 49, 45, 48, 50>>

DateKeys ==
    UNION { [1..n -> DateSymbols] : n \in 0..MaxDateLen }
        \cup { Date20250101, Date20250102 }

\* "undefined": the argument left out
Languages == { "en", "ko", "undefined" }

InitDaily ==
    /\ game = EvalGame
    /\ ev = [pc |-> "idle", source |-> "none", dateKey |-> <<>>, language |-> "en",
             seedInput |-> <<>>, indices |-> <<>>, result |-> <<>>, prng |-> <<>>,
             earlier |-> <<>>, interleaved |-> FALSE]

\* the last call, as set aside
lastCall ==
    [source |-> ev.source, dateKey |-> ev.dateKey, language |-> ev.language,
     seedInput |-> ev.seedInput, result |-> ev.result]

\* the state after a call that returned r
afterDailyCall(source, dateKey, language, keep, r) ==
    [pc |-> "returned", source |-> source, dateKey |-> dateKey, language |-> language,
     seedInput |-> r.seedInput, indices |-> r.indices, result |-> r.result,
     prng |-> r.state,
     earlier |-> IF keep THEN <<lastCall>> ELSE ev.earlier,
     interleaved |-> ~keep /\ ev.earlier # <<>>]

\* getDailyTargets(dateKey, language) of daily.ts
GetDailyTargets ==
    /\ \E dateKey \in DateKeys, language \in Languages :
         LET r == getDailyTargets(dateKey, language)
         IN  \E keep \in BOOLEAN :
                /\ keep => ev.pc = "returned"
                /\ ev' = afterDailyCall("daily.ts", dateKey, language, keep, r)
    /\ UNCHANGED game

\* getDailyTargets(dateKey, language) of the server's copy
ServerGetDailyTargets ==
    /\ \E dateKey \in DateKeys, language \in Languages :
         LET r == serverGetDailyTargets(dateKey, language)
         IN  \E keep \in BOOLEAN :
                /\ keep => ev.pc = "returned"
                /\ ev' = afterDailyCall("part_012", dateKey, language, keep, r)
    /\ UNCHANGED game

NextDaily == GetDailyTargets \/ ServerGetDailyTargets

DailySpec == InitDaily /\ [][NextDaily]_vars

(***************************************************************************)
(* SelectSpec: one call of getDailyTargets on an answer list of any        *)
(* length, the rejection sampling of selectDistinctIndices taken one       *)
(* iteration of its do-while loop at a time.                               *)
(***************************************************************************)
MaxListLen == 5

MaxDraws == 12

InitSelect ==
    /\ game = EvalGame
    /\ \E dateKey \in DateKeys, length \in 0..MaxListLen :
         ev = [pc |-> "called", dateKey |-> dateKey, length |-> length,
               state |-> <<>>, indices |-> <<>>, draws |-> 0]

\* seed = dateKeyToSeed(dateKey); random = mulberry32(seed)
SeedGenerator ==
    /\ ev.pc = "called"
    /\ ev' = [ev EXCEPT !.pc = "drawing",
                        !.state = mulberry32(dateKeyToSeed(ev.dateKey))]
    /\ UNCHANGED game

\* one iteration of the do-while loop: idx = Math.floor(random() * length);
\* when idx is not used, used.add(idx) and indices.push(idx)
DrawIndex ==
    /\ ev.pc = "drawing"
    /\ Len(ev.indices) < 4
    /\ ev.draws < MaxDraws
    /\ LET r   == random(ev.state)
           idx == floorScale(r.value, ev.length)
       IN  ev' = [ev EXCEPT !.state = r.state,
                            !.draws = ev.draws + 1,
                            !.indices = IF \E n \in 1..Len(ev.indices) : ev.indices[n] = idx
                                        THEN ev.indices
                                        ELSE Append(ev.indices, idx)]
    /\ UNCHANGED game

\* return indices, after the for loop
ReturnIndices ==
    /\ ev.pc = "drawing"
    /\ Len(ev.indices) >= 4
    /\ ev' = [ev EXCEPT !.pc = "returned"]
    /\ UNCHANGED game

NextSelect == SeedGenerator \/ DrawIndex \/ ReturnIndices

SelectSpec == InitSelect /\ [][NextSelect]_vars

(***************************************************************************)
(* server.js: the session server's own copy of the game logic.  A server   *)
(* game state has no language and its boards no koResults.                 *)
(***************************************************************************)
serverCreateBoardState(targetWord) ==
    [targetWord    |-> toLowerCase(targetWord),
     guesses       |-> <<>>,
     results       |-> <<>>,
     solved        |-> FALSE,
     solvedOnGuess |-> Null]

\* createGameState(targetWords, maxGuesses = 9)
createGameState(targetWords, maxGuesses) ==
    [boards       |-> [b \in 1..4 |-> serverCreateBoardState(targetWords[b])],
     currentGuess |-> <<>>,
     guessCount   |-> 0,
     maxGuesses   |-> maxGuesses,
     gameOver     |-> FALSE,
     won          |-> FALSE]

\* the server's evaluateGuess without its second pass
serverEvaluateGuess_firstPassOnly(guess, target) ==
    LET init == [result |-> [i \in 1..5 |-> "absent"],
                 counts |-> countLetters(target, 1, <<>>)]
    IN  firstPass(guess, target, 1, init).result

\* the server's evaluateGuess: new Array(5).fill('absent') and two loops
\* over i < 5; its callers pass a validated guess and a board's target,
\* five letters each, already in lower case
serverEvaluateGuess(guess, target) ==
    LET init == [result |-> [i \in 1..5 |-> "absent"],
                 counts |-> countLetters(target, 1, <<>>)]
    IN  secondPass(guess, 1, firstPass(guess, target, 1, init)).result

\* normalizedGuess.length === 5 && /^[a-z]+$/.test(normalizedGuess)
isValidGuessFormat(normalizedGuess) ==
    /\ Len(normalizedGuess) = 5
    /\ \A i \in 1..Len(normalizedGuess) :
          normalizedGuess[i] >= 97 /\ normalizedGuess[i] <= 122

\* the callback of boards.map in the WebSocket GUESS handler; a solved
\* board repeats its last row (results[length - 1] || [])
wsBoard(board, normalizedGuess, guessCount) ==
    IF board.solved
    THEN [board EXCEPT
            !.guesses = Append(@, normalizedGuess),
            !.results = Append(@, IF board.results # <<>>
                                  THEN board.results[Len(board.results)]
                                  ELSE <<>>)]
    ELSE LET result == serverEvaluateGuess(normalizedGuess, board.targetWord)
             solved == isSolved(result)
         IN  [board EXCEPT
                !.guesses       = Append(@, normalizedGuess),
                !.results       = Append(@, result),
                !.solved        = solved,
                !.solvedOnGuess = IF solved THEN guessCount + 1
                                  ELSE board.solvedOnGuess]

\* the callback of boards.map in POST /api/game/guess; the last row of a
\* solved board without rows is undefined (Null here)
restBoard(board, normalizedGuess, guessCount) ==
    IF board.solved
    THEN [board EXCEPT
            !.guesses = Append(@, normalizedGuess),
            !.results = Append(@, IF board.results # <<>>
                                  THEN board.results[Len(board.results)]
                                  ELSE Null)]
    ELSE LET result == serverEvaluateGuess(normalizedGuess, board.targetWord)
             solved == isSolved(result)
         IN  [board EXCEPT
                !.guesses       = Append(@, normalizedGuess),
                !.results       = Append(@, result),
                !.solved        = solved,
                !.solvedOnGuess = IF solved THEN guessCount + 1 ELSE Null]

\* newGameState of both handlers: { ...gameState, boards: newBoards,
\* currentGuess: '', guessCount: newGuessCount, gameOver: newGameOver,
\* won: allSolved }
serverNewGameState(gameState, newBoards) ==
    [gameState EXCEPT
        !.boards       = newBoards,
        !.currentGuess = <<>>,
        !.guessCount   = gameState.guessCount + 1,
        !.gameOver     = (\A b \in 1..4 : newBoards[b].solved)
                         \/ gameState.guessCount + 1 >= gameState.maxGuesses,
        !.won          = \A b \in 1..4 : newBoards[b].solved]

\* the WebSocket GUESS handler on the player it found, answered at time
\* now: [code, playerState]; code is the type of the message sent back
\* (STATE) or the code of the ERROR; playerState is what the room's player
\* map holds afterwards.  Of a player state the model keeps gameState and
\* finishedAt.
wsGuess(playerState, guess, now) ==
    LET normalizedGuess == toLowerCase(guess)
        oldGameState    == playerState.gameState
    IN  IF oldGameState.gameOver
        THEN [code |-> "GAME_OVER", playerState |-> playerState]
        ELSE IF ~isValidGuessFormat(normalizedGuess)
        THEN [code |-> "INVALID_GUESS", playerState |-> playerState]
        ELSE
        LET newBoards    == [b \in 1..4 |-> wsBoard(oldGameState.boards[b], normalizedGuess,
                                                    oldGameState.guessCount)]
            newGameState == serverNewGameState(oldGameState, newBoards)
        IN  [code |-> "STATE",
             playerState |->
                [playerState EXCEPT
                    !.gameState  = newGameState,
                    !.finishedAt = IF newGameState.gameOver /\ playerState.finishedAt = Null
                                   THEN now ELSE playerState.finishedAt]]

\* POST /api/game/guess on the stored state it found: [status, gameState];
\* gameState is what gameStateStore holds afterwards
restGuess(gameState, guess) ==
    LET normalizedGuess == toLowerCase(guess)
    IN  IF gameState.gameOver THEN [status |-> 200, gameState |-> gameState]
        ELSE IF ~isValidGuessFormat(normalizedGuess)
        THEN [status |-> 400, gameState |-> gameState]
        ELSE
        LET newBoards == [b \in 1..4 |-> restBoard(gameState.boards[b], normalizedGuess,
                                                   gameState.guessCount)]
        IN  [status |-> 200, gameState |-> serverNewGameState(gameState, newBoards)]

(***************************************************************************)
(* AgreeSpec: one daily game played three times over, by the engine's      *)
(* submitGuess, by the WebSocket GUESS handler and by POST /api/game/guess,*)
(* from the same targets and guess budget and with the same guesses.  A    *)
(* guess that only one side takes as valid leaves the three games where    *)
(* they are: from there on they would no longer be one game.               *)
(***************************************************************************)
\* the values Date.now() returns, in the order of time
MaxClock == 2

Timestamps == 1..MaxClock

\* "ABABA" is a guess in capitals; "zzzzz" misses every target
AgreeGuesses == LatinGuesses \cup { <<65, 66, 65, 66, 65>>, <<122, 122, 122, 122, 122>> }

InitAgree ==
    \E targetWords \in [1..4 -> LatinTargets], maxGuesses \in 1..MaxGuessesBound :
        /\ game = createGame([targetWords |-> targetWords, maxGuesses |-> maxGuesses,
                              language |-> "en"])
        /\ \E created \in { createGameState(targetWords, maxGuesses) } :
              ev = [ws     |-> [gameState |-> created, finishedAt |-> Null],
                    rest   |-> created,
                    before |-> [ws   |-> [gameState |-> created, finishedAt |-> Null],
                                rest |-> created],
                    code   |-> "none",
                    status |-> 0]

\* the same guess sent to the three of them; now is what Date.now() returns
AgreeGuess ==
    \E guess \in AgreeGuesses, now \in Timestamps :
        /\ validateGuess(guess, "en").valid = isValidGuessFormat(toLowerCase(guess))
        /\ \E e \in { submitGuess(game, guess) },
              w \in { wsGuess(ev.ws, guess, now) },
              r \in { restGuess(ev.rest, guess) } :
              /\ game' = e.state
              /\ ev' = [ws     |-> w.playerState,
                        rest   |-> r.gameState,
                        before |-> [ws |-> ev.ws, rest |-> ev.rest],
                        code   |-> w.code,
                        status |-> r.status]

NextAgree == AgreeGuess

AgreeSpec == InitAgree /\ [][NextAgree]_vars

(***************************************************************************)
(* server.js: one room of the session server (one roomId and dateKey).     *)
(* room.players is a Map, kept here as the sequence of its values in       *)
(* insertion order; of a player state the model keeps visibleUserId,       *)
(* gameState and finishedAt.                                               *)
(***************************************************************************)
\* createGameState's default for maxGuesses
defaultMaxGuesses == 9

\* null where a player state is expected
NoPlayer == [visibleUserId |-> Null]

\* room.players.get(visibleUserId) ?? null
getPlayer(players, visibleUserId) ==
    IF \E i \in 1..Len(players) : players[i].visibleUserId = visibleUserId
    THEN players[CHOOSE i \in 1..Len(players) : players[i].visibleUserId = visibleUserId]
    ELSE NoPlayer

\* room.players.set(visibleUserId, playerState): a new key goes last, a
\* known key keeps its place
playersSet(players, playerState) ==
    IF \E i \in 1..Len(players) : players[i].visibleUserId = playerState.visibleUserId
    THEN [i \in 1..Len(players) |->
            IF players[i].visibleUserId = playerState.visibleUserId
            THEN playerState ELSE players[i]]
    ELSE Append(players, playerState)

toLeaderboardEntry(player) ==
    [visibleUserId |-> player.visibleUserId,
     solvedCount   |-> Cardinality({ b \in 1..4 : player.gameState.boards[b].solved }),
     guessCount    |-> player.gameState.guessCount,
     gameOver      |-> player.gameState.gameOver,
     won           |-> player.gameState.won,
     finishedAt    |-> player.finishedAt]

\* the comparator of sortLeaderboard: negative when a goes first
compareEntries(a, b) ==
    IF a.gameOver # b.gameOver THEN (IF a.gameOver THEN -1 ELSE 1)
    ELSE IF a.solvedCount # b.solvedCount THEN b.solvedCount - a.solvedCount
    ELSE IF a.guessCount # b.guessCount THEN a.guessCount - b.guessCount
    ELSE IF a.finishedAt # Null /\ b.finishedAt # Null THEN a.finishedAt - b.finishedAt
    ELSE 0

\* one entry put into a sorted array behind every entry that does not have
\* to come after it (Array.prototype.sort is stable)
RECURSIVE insertEntry(_, _, _)
insertEntry(sorted, entry, i) ==
    IF i > Len(sorted) THEN Append(sorted, entry)
    ELSE IF compareEntries(entry, sorted[i]) < 0
         THEN SubSeq(sorted, 1, i - 1) \o <<entry>> \o SubSeq(sorted, i, Len(sorted))
         ELSE insertEntry(sorted, entry, i + 1)

\* [...entries].sort(comparator)
RECURSIVE sortLeaderboard(_)
sortLeaderboard(entries) ==
    IF entries = <<>> THEN <<>>
    ELSE insertEntry(sortLeaderboard(SubSeq(entries, 1, Len(entries) - 1)),
                     entries[Len(entries)], 1)

\* updateLeaderboard: room.leaderboard = sortLeaderboard(entries of players)
updateLeaderboard(players) ==
    [players     |-> players,
     leaderboard |-> sortLeaderboard([i \in 1..Len(players) |->
                                        toLeaderboardEntry(players[i])])]

\* setPlayer on the room's in-memory state; persistPlayerToRedis is the
\* caller's write to redis
setPlayer(room, playerState) ==
    updateLeaderboard(playersSet(room.players, playerState))

createPlayerState(visibleUserId, gameState) ==
    [visibleUserId |-> visibleUserId, gameState |-> gameState, finishedAt |-> Null]

(***************************************************************************)
(* SessionSpec: JOIN and GUESS messages for one room on a server with      *)
(* Redis.  game is the room (players, leaderboard); ev.redis is the        *)
(* player stored under each player key, ev.pending the JOIN handlers       *)
(* suspended in getPlayerAsync at await loadPlayerFromRedis, each with the *)
(* reply its GET will get.  All commands go over one connection, so Redis  *)
(* runs them in the order the handlers issued them and the replies come    *)
(* back in that order.  A handler between two awaits on real I/O runs      *)
(* without another handler in between.                                     *)
(***************************************************************************)
MaxPending == 2

Users == { "u1", "u2" }

\* the room's date and its targets
SessionTargets == serverGetDailyTargets(Date20250101, "en").result

\* the last target, a guess of two letters, and a word that is no target
SessionGuesses == { SessionTargets[4], <<97, 98>> }

\* what Redis may hold of a player when the server starts: nothing, or a
\* game of an earlier run with three boards solved in three guesses
storedByEarlierRun(visibleUserId) ==
    LET p0 == createPlayerState(visibleUserId,
                                createGameState(SessionTargets, defaultMaxGuesses))
        p1 == wsGuess(p0, SessionTargets[1], 1).playerState
        p2 == wsGuess(p1, SessionTargets[2], 1).playerState
    IN  wsGuess(p2, SessionTargets[3], 1).playerState

InitSession ==
    /\ game = [players |-> <<>>, leaderboard |-> <<>>]
    /\ \E stored \in SUBSET Users :
          ev = [redis   |-> [u \in Users |-> IF u \in stored THEN storedByEarlierRun(u)
                                             ELSE NoPlayer],
                pending |-> <<>>]

\* JOIN, player in the room's map: getPlayerAsync returns cachedPlayer, the
\* handler refreshes profile and updatedAt and calls setPlayer
JoinCached ==
    \E visibleUserId \in Users :
        \E playerState \in { getPlayer(game.players, visibleUserId) } :
            /\ playerState # NoPlayer
            /\ game' = setPlayer(game, playerState)
            /\ ev' = [ev EXCEPT !.redis[visibleUserId] = playerState]

\* JOIN, player not in the map: getPlayerAsync sends the GET and the
\* handler is suspended until the reply is there
JoinSuspend ==
    \E visibleUserId \in Users :
        /\ getPlayer(game.players, visibleUserId) = NoPlayer
        /\ Len(ev.pending) < MaxPending
        /\ ev' = [ev EXCEPT !.pending = Append(@, [visibleUserId |-> visibleUserId,
                                                   redisPlayer   |-> ev.redis[visibleUserId]])]
        /\ UNCHANGED game

\* the reply is there: getPlayerAsync caches a player it got, the handler
\* creates the player when it got none, and calls setPlayer
JoinResume ==
    /\ ev.pending # <<>>
    /\ \E join \in { Head(ev.pending) } :
          \E playerState \in
                { IF join.redisPlayer # NoPlayer THEN join.redisPlayer
                  ELSE createPlayerState(join.visibleUserId,
                           createGameState(SessionTargets, defaultMaxGuesses)) } :
              /\ game' = setPlayer(IF join.redisPlayer # NoPlayer
                                   THEN updateLeaderboard(playersSet(game.players,
                                                                     join.redisPlayer))
                                   ELSE game,
                                   playerState)
              /\ ev' = [redis   |-> [ev.redis EXCEPT ![join.visibleUserId] = playerState],
                        pending |-> Tail(ev.pending)]

\* GUESS: PLAYER_NOT_FOUND, or the GUESS handler's answer and, for STATE,
\* setPlayer(updatedPlayerState)
Guess ==
    \E visibleUserId \in Users, guess \in SessionGuesses, now \in Timestamps :
        \E playerState \in { getPlayer(game.players, visibleUserId) } :
            IF playerState = NoPlayer THEN UNCHANGED vars
            ELSE \E answer \in { wsGuess(playerState, guess, now) } :
                    IF answer.code # "STATE" THEN UNCHANGED vars
                    ELSE /\ game' = setPlayer(game, answer.playerState)
                         /\ ev' = [ev EXCEPT !.redis[visibleUserId] = answer.playerState]

NextSession == JoinCached \/ JoinSuspend \/ JoinResume \/ Guess

SessionSpec == InitSession /\ [][NextSession]_vars

(***************************************************************************)
(* The language-aware server (part_012): wsConnectionsByRoom.  A room key  *)
(* is roomId:dateKey:language; the Set of client objects of a key is kept  *)
(* as the sequence of its members in insertion order, a client object as   *)
(* [ws |-> the socket it was made for].                                    *)
(***************************************************************************)
\* makeRoomKey(roomId, dateKey, language = 'en')
makeRoomKey(roomId, dateKey, language) ==
    <<roomId, dateKey, IF language = "undefined" THEN "en" ELSE language>>

\* Map.prototype.delete
mapDelete(m, k) == [x \in DOMAIN m \ {k} |-> m[x]]

\* JOIN: if (!has(roomKey)) set(roomKey, new Set()); get(roomKey).add({ ws, ... })
addClient(connections, roomKey, ws) ==
    mapSet(connections, roomKey,
           Append(IF roomKey \in DOMAIN connections THEN connections[roomKey] ELSE <<>>,
                  [ws |-> ws]))

\* for (const client of connections) if (client.ws === ws) { delete; break }
deleteFirstOf(clients, ws) ==
    IF \E i \in 1..Len(clients) : clients[i].ws = ws
    THEN LET first == CHOOSE i \in 1..Len(clients) :
                         /\ clients[i].ws = ws
                         /\ \A j \in 1..(i - 1) : clients[j].ws # ws
         IN  SubSeq(clients, 1, first - 1) \o SubSeq(clients, first + 1, Len(clients))
    ELSE clients

\* the sockets broadcastToRoomByKey sends to: the clients of the key whose
\* socket is OPEN
broadcastToRoomByKey(connections, open, roomKey) ==
    IF roomKey \notin DOMAIN connections THEN {}
    ELSE { connections[roomKey][i].ws : i \in { j \in 1..Len(connections[roomKey]) :
                                                  connections[roomKey][j].ws \in open } }

\* handleLeave(roomId, dateKey, visibleUserId, ws): [connections, sent];
\* sent is the key and the receivers of its ROOM_EVENT and LEADERBOARD
handleLeave(connections, open, roomId, dateKey, ws) ==
    LET roomKey == makeRoomKey(roomId, dateKey, "undefined")
        after   == IF roomKey \notin DOMAIN connections THEN connections
                   ELSE IF deleteFirstOf(connections[roomKey], ws) = <<>>
                        THEN mapDelete(connections, roomKey)
                        ELSE mapSet(connections, roomKey,
                                    deleteFirstOf(connections[roomKey], ws))
    IN  [connections |-> after,
         sent        |-> [roomKey |-> roomKey,
                          to      |-> broadcastToRoomByKey(after, open, roomKey)]]

(***************************************************************************)
(* ConnSpec: sockets that send JOIN, GUESS and LEAVE for one roomId and    *)
(* dateKey in either language, and close.  game is wsConnectionsByRoom;    *)
(* ev holds the sockets that are OPEN, each connection's currentRoomKey,   *)
(* the sockets whose JOIN handler is suspended at an await, the rooms each *)
(* socket joined and the rooms it left since, and the receivers of the     *)
(* broadcasts of the last step.  The player map of the handlers is         *)
(* SessionSpec's.                                                          *)
(***************************************************************************)
MaxMembers == 3

Sockets == { "ws1", "ws2" }

\* let currentRoomKey = null
NoRoomKey == <<>>

NothingSent == [roomKey |-> <<"r", "d", "en">>, to |-> {}]

\* a socket left every room it had joined
leaves(ws) ==
    [ev EXCEPT !.left   = @ \cup { p \in ev.joined : p[1] = ws },
               !.joined = { p \in @ : p[1] # ws }]

InitConn ==
    /\ game = <<>>
    /\ ev = [open           |-> Sockets,
             currentRoomKey |-> [ws \in Sockets |-> NoRoomKey],
             pending        |-> {},
             joined         |-> {},
             left           |-> {},
             sent           |-> NothingSent]

\* JOIN up to its first await: currentRoomKey is set and the client added
ConnJoin ==
    \E ws \in ev.open \ ev.pending, language \in { "en", "ko" } :
        \E roomKey \in { makeRoomKey("r", "d", language) } :
            /\ roomKey \in DOMAIN game => Len(game[roomKey]) < MaxMembers
            /\ game' = addClient(game, roomKey, ws)
            /\ ev' = [ev EXCEPT !.currentRoomKey[ws] = roomKey,
                                !.pending = @ \cup {ws},
                                !.joined  = @ \cup { <<ws, roomKey>> },
                                !.left    = @ \ { <<ws, roomKey>> },
                                !.sent    = NothingSent]

\* JOIN after its awaits: LEADERBOARD and ROOM_EVENT join go to
\* currentRoomKey; on a socket closed in between ws.send(STATE) may throw
\* before the broadcasts
ConnJoinBroadcast ==
    \E ws \in ev.pending :
        \E to \in { broadcastToRoomByKey(game, ev.open, ev.currentRoomKey[ws]) }
                  \cup (IF ws \in ev.open THEN {} ELSE { {} }) :
            /\ ev' = [ev EXCEPT !.pending = @ \ {ws},
                                !.sent    = [roomKey |-> ev.currentRoomKey[ws], to |-> to]]
            /\ UNCHANGED game

\* GUESS of a player of the room: LEADERBOARD goes to the room of the
\* message's language
ConnGuess ==
    \E ws \in ev.open, language \in { "en", "ko" } :
        \E roomKey \in { makeRoomKey("r", "d", language) } :
            /\ ev' = [ev EXCEPT !.sent = [roomKey |-> roomKey,
                                          to |-> broadcastToRoomByKey(game, ev.open, roomKey)]]
            /\ UNCHANGED game

\* LEAVE { roomId, dateKey, visibleUserId }
ConnLeave ==
    \E ws \in ev.open :
        \E done \in { handleLeave(game, ev.open, "r", "d", ws) } :
            /\ game' = done.connections
            /\ ev' = [leaves(ws) EXCEPT !.sent = done.sent]

\* ws.on("close"): the socket is CLOSED; handleLeave if the connection had
\* joined
ConnClose ==
    \E ws \in ev.open :
        \E done \in { IF ev.currentRoomKey[ws] # NoRoomKey
                      THEN handleLeave(game, ev.open \ {ws}, "r", "d", ws)
                      ELSE [connections |-> game, sent |-> NothingSent] } :
            /\ game' = done.connections
            /\ ev' = [leaves(ws) EXCEPT !.open = @ \ {ws}, !.sent = done.sent]

NextConn == ConnJoin \/ ConnJoinBroadcast \/ ConnGuess \/ ConnLeave \/ ConnClose

ConnSpec == InitConn /\ [][NextConn]_vars

(***************************************************************************)
(* Claims about the game state machine.                                    *)
(***************************************************************************)
\* submitGuess takes the guess: the game is not over and validateGuess passes
accepted(state, guess) ==
    ~state.gameOver /\ validateGuess(guess, state.language).valid

\* C1: in every reachable state gameOver is true if and only if won is true
\* or guessCount >= maxGuesses.
C1_GameOverIffWonOrOutOfGuesses ==
    game.gameOver <=> (game.won \/ game.guessCount >= game.maxGuesses)

\* C2: GameOver is terminal: when gameOver is true, submitGuess with any
\* guess and setCurrentGuess with any input return the state they were
\* given, without throwing, and no step changes the game any more.
C2_GameOverIsTerminal ==
    /\ [](game.gameOver =>
            /\ \A guess \in Guesses :
                 submitGuess(game, guess) = [error |-> "none", state |-> game]
            /\ \A raw \in RawInputs : setCurrentGuess(game, raw) = game)
    /\ [][game.gameOver => game' = game]_vars

\* C2 witness: a finished game, won after more than one guess
C2_Witness == game.gameOver /\ game.won /\ game.guessCount >= 2

\* C3: in every reachable state won is true if and only if all four boards
\* are solved.
C3_WonIffAllSolved ==
    game.won <=> (\A b \in 1..4 : game.boards[b].solved)

\* C3 witness: a won game whose boards were solved on different guesses
C3_Witness ==
    /\ game.won
    /\ \E b, c \in 1..4 : game.boards[b].solvedOnGuess # game.boards[c].solvedOnGuess

\* C4: guessCount increases by exactly 1 on every accepted submitGuess, is
\* unchanged by a submitGuess that is not accepted and by setCurrentGuess,
\* and never decreases along a behaviour.
C4_GuessCountStepsByOne ==
    /\ [](/\ \A guess \in Guesses :
               submitGuess(game, guess).state.guessCount =
                   IF accepted(game, guess) THEN game.guessCount + 1 ELSE game.guessCount
          /\ \A raw \in RawInputs :
               setCurrentGuess(game, raw).guessCount = game.guessCount)
    /\ [][/\ game'.guessCount >= game.guessCount
          /\ game'.guessCount <= game.guessCount + 1
          /\ (game'.guessCount = game.guessCount + 1
                => \E guess \in Guesses : accepted(game, guess))]_vars

\* C4 witness: a game in progress that has taken two guesses
C4_Witness == ~game.gameOver /\ game.guessCount = 2

\* the 1-indexed rows of a board whose result is all-correct
allCorrectRows(board) ==
    { i \in 1..Len(board.results) : isSolved(board.results[i]) }

\* C5: on every board solvedOnGuess is set exactly once: it is null as long
\* as no accepted guess had an all-correct result on the board, it becomes
\* the 1-indexed number of the first such guess in the step that takes that
\* guess, and from then on solved stays true and solvedOnGuess keeps its value.
C5_SolvedOnGuessSetOnce ==
    /\ [](\A b \in 1..4 :
            LET board == game.boards[b]
            IN  /\ board.solvedOnGuess = Null <=> allCorrectRows(board) = {}
                /\ board.solvedOnGuess # Null =>
                     /\ board.solved
                     /\ board.solvedOnGuess \in allCorrectRows(board)
                     /\ \A i \in allCorrectRows(board) : i >= board.solvedOnGuess)
    /\ [][\A b \in 1..4 :
            /\ game.boards[b].solved =>
                 /\ game'.boards[b].solved
                 /\ game'.boards[b].solvedOnGuess = game.boards[b].solvedOnGuess
            /\ (~game.boards[b].solved /\ game'.boards[b].solved) =>
                 /\ game'.guessCount = game.guessCount + 1
                 /\ game'.boards[b].solvedOnGuess = game'.guessCount]_vars

\* C5 witness: a board solved on guess 2 that still says so after guess 4
C5_Witness ==
    /\ game.guessCount = 4
    /\ \E b \in 1..4 : game.boards[b].solved /\ game.boards[b].solvedOnGuess = 2

(***************************************************************************)
(* Claims about the Latin evaluator.  A symbol is a letter: evaluateGuess  *)
(* folds both arguments to lower case before it compares, so a position    *)
(* holds the symbol its lower-cased code unit names.                       *)
(***************************************************************************)
evReturned == ev.pc = "returned" /\ ev.error = "none"

evGuess == toLowerCase(ev.guess)

evTarget == toLowerCase(ev.target)

evSymbols == { toLowerCaseChar(c) : c \in EvalAlphabet }

\* positions of the guess holding s, and occurrences of s in the target
guessPositions(s) == { i \in 1..Len(evGuess) : evGuess[i] = s }

targetCount(s) == Cardinality({ i \in 1..Len(evTarget) : evTarget[i] = s })

\* C6: for equal-length guess and target and every symbol s, the positions
\* of the guess holding s that evaluateGuess marks correct or present are
\* no more than the occurrences of s in the target.
C6_MultisetConservation ==
    evReturned =>
        \A s \in evSymbols :
            Cardinality({ i \in guessPositions(s) :
                            ev.result[i] \in {"correct", "present"} }) <= targetCount(s)

\* C6 witness: a symbol guessed twice off-position that the target holds
\* once: one position is credited and the other is not
C6_Witness ==
    /\ evReturned
    /\ \E s \in evSymbols :
         /\ targetCount(s) = 1
         /\ Cardinality(guessPositions(s)) = 2
         /\ \A i \in guessPositions(s) : evTarget[i] # s
         /\ \E i, j \in guessPositions(s) :
              ev.result[i] = "present" /\ ev.result[j] = "absent"

\* the non-correct positions of the guess holding s
offPositions(s) == { i \in guessPositions(s) : evTarget[i] # s }

\* the occurrences of s in the target that no correct position uses
leftForPresent(s) ==
    targetCount(s) - Cardinality({ i \in guessPositions(s) : evTarget[i] = s })

minOf(a, b) == IF a < b THEN a ELSE b

\* C7: evaluateGuess equals the two-pass reference: position i is correct
\* iff guess[i] = target[i]; among the non-correct positions holding s,
\* exactly the leftmost min(k, count of s in target - correct positions
\* holding s) are present (k the number of such positions), the rest absent.
C7_TwoPassReference ==
    evReturned =>
        /\ Len(ev.result) = Len(ev.guess)
        /\ \A i \in 1..Len(evGuess) :
             ev.result[i] = "correct" <=> evGuess[i] = evTarget[i]
        /\ \A s \in evSymbols :
             \A i \in offPositions(s) :
                ev.result[i] =
                    IF Cardinality({ j \in offPositions(s) : j < i })
                         < minOf(Cardinality(offPositions(s)), leftForPresent(s))
                    THEN "present" ELSE "absent"

\* C7 witness: the target's only s is matched in place, so an earlier
\* off-position s of the same guess is absent
C7_Witness ==
    /\ evReturned
    /\ \E s \in evSymbols :
         /\ targetCount(s) = 1
         /\ \E i, j \in guessPositions(s) :
              i < j /\ ev.result[i] = "absent" /\ ev.result[j] = "correct"

(***************************************************************************)
(* Claims about computeKeyboardMap.                                        *)
(***************************************************************************)
\* the 1-indexed rows of a board recorded up to and including the solving
\* guess (all rows of an unsolved board)
preSolveRows(board) ==
    { r \in 1..Len(board.guesses) : board.solvedOnGuess = Null \/ r <= board.solvedOnGuess }

postSolveRows(board) == (1..Len(board.guesses)) \ preSolveRows(board)

\* the state with every post-solve row dropped
withoutPostSolveRows(state) ==
    [state EXCEPT !.boards =
        [b \in 1..4 |->
            LET board == state.boards[b]
                n     == Cardinality(preSolveRows(board))
            IN  [board EXCEPT !.guesses = SubSeq(@, 1, n), !.results = SubSeq(@, 1, n)]]]

\* the state with every post-solve row overwritten: guess w, result all v
withPostSolveRows(state, w, v) ==
    [state EXCEPT !.boards =
        [b \in 1..4 |->
            LET board == state.boards[b]
            IN  [board EXCEPT
                   !.guesses = [r \in 1..Len(@) |->
                                  IF r \in postSolveRows(board) THEN w ELSE @[r]],
                   !.results = [r \in 1..Len(@) |->
                                  IF r \in postSolveRows(board)
                                  THEN [i \in 1..Len(w) |-> v] ELSE @[r]]]]]

\* the keys a word gives the keyboard: its letters, or the jamo of its syllables
keysOfWord(language, word) ==
    IF language = "ko"
    THEN UNION { LET d == decomposeHangul(word[i])
                 IN  {d.onset, d.vowel} \cup (IF d.coda # Null THEN {d.coda} ELSE {}) :
                 i \in { j \in 1..Len(word) : isHangulSyllable(word[j]) } }
    ELSE { word[i] : i \in 1..Len(word) }

targetKeys(state) ==
    UNION { keysOfWord(state.language, state.boards[b].targetWord) : b \in 1..4 }

\* C8: rows recorded on a board after it was solved never influence
\* computeKeyboardMap: dropping them or overwriting them with any guess and
\* result leaves the map as it is; resubmitting the solving guess of a solved
\* board while the game is in progress changes no entry; and a key that
\* occurs in no target is absent in the map whenever it is in it.
C8_PostSolveRowsNotInKeyboardMap ==
    LET map == computeKeyboardMap(game)
    IN  /\ computeKeyboardMap(withoutPostSolveRows(game)) = map
        /\ \A guess \in { g \in Guesses : validateGuess(g, game.language).valid } :
             \A v \in {"correct", "present", "absent"} :
                computeKeyboardMap(withPostSolveRows(game, normalizeGuess(guess, game.language), v))
                    = map
        /\ \A guess \in Guesses :
             (/\ accepted(game, guess)
              /\ \E b \in 1..4 :
                   /\ game.boards[b].solved
                   /\ game.boards[b].guesses[game.boards[b].solvedOnGuess]
                        = normalizeGuess(guess, game.language))
                => computeKeyboardMap(submitGuess(game, guess).state) = map
        /\ \A key \in DOMAIN map : key \notin targetKeys(game) => map[key] = "absent"

\* C8 witness: a game in progress with a post-solve row on a solved board,
\* whose guess holds a key of no target, absent in the map
C8_Witness ==
    /\ ~game.gameOver
    /\ \E b \in 1..4 :
         /\ game.boards[b].solved
         /\ \E r \in postSolveRows(game.boards[b]) :
              \E key \in keysOfWord(game.language, game.boards[b].guesses[r]) :
                 /\ key \notin targetKeys(game)
                 /\ isSolved(game.boards[b].results[r])
                 /\ computeKeyboardMap(game)[key] = "absent"

\* the jamo-layer hints recorded for a jamo: over all boards' pre-solve rows
\* and positions whose syllable is not correct, the onset, vowel and coda
\* hints of the guess syllable's onset, vowel and coda
jamoHintsOf(state, jamo) ==
    UNION { UNION { UNION {
        LET d == decomposeHangul(state.boards[b].guesses[r][i])
            k == state.boards[b].koResults[r][i]
        IN  IF k.syllable = "correct" THEN {}
            ELSE (IF d.onset = jamo THEN {k.jamoHints.onset} ELSE {})
                 \cup (IF d.vowel = jamo THEN {k.jamoHints.vowel} ELSE {})
                 \cup (IF d.coda = jamo THEN {k.jamoHints.coda} ELSE {}) :
        i \in 1..Len(state.boards[b].guesses[r]) } :
        r \in preSolveRows(state.boards[b]) } :
        b \in 1..4 }

\* the syllable-layer results recorded for the syllables holding a jamo
syllableResultsOf(state, jamo) ==
    UNION { UNION {
        { state.boards[b].results[r][i] :
            i \in { j \in 1..Len(state.boards[b].guesses[r]) :
                      jamo \in keysOfWord("ko", <<state.boards[b].guesses[r][j]>>) } } :
        r \in preSolveRows(state.boards[b]) } :
        b \in 1..4 }

\* C9: in a Korean game (created with maxGuesses >= 1) computeKeyboardMap
\* colours a jamo from the jamo-layer hints: a jamo every syllable of which
\* was marked absent, and one of whose jamo hints is present (none correct),
\* is present in the map, not absent.
C9_KeyboardMapUsesJamoHints ==
    (game.language = "ko" /\ game.maxGuesses >= 1) =>
        \A jamo \in DOMAIN computeKeyboardMap(game) :
            (/\ syllableResultsOf(game, jamo) = {"absent"}
             /\ "present" \in jamoHintsOf(game, jamo)
             /\ "correct" \notin jamoHintsOf(game, jamo))
                => computeKeyboardMap(game)[jamo] = "present"

rank(status) == IF status = "correct" THEN 3 ELSE IF status = "present" THEN 2 ELSE 1

\* the tile results recorded for a letter over all boards' pre-solve rows
tileResultsOf(state, letter) ==
    UNION { UNION {
        { state.boards[b].results[r][i] :
            i \in { j \in 1..Len(state.boards[b].guesses[r]) :
                      state.boards[b].guesses[r][j] = letter } } :
        r \in preSolveRows(state.boards[b]) } :
        b \in 1..4 }

submittedLetters(state) ==
    UNION { UNION {
        { state.boards[b].guesses[r][i] : i \in 1..Len(state.boards[b].guesses[r]) } :
        r \in 1..Len(state.boards[b].guesses) } :
        b \in 1..4 }

\* the boards in another order
permuted(state, perm) == [state EXCEPT !.boards = [b \in 1..4 |-> state.boards[perm[b]]]]

BoardOrders == { <<4, 3, 2, 1>>, <<2, 1, 4, 3>>, <<3, 4, 1, 2>>, <<2, 3, 4, 1>> }

\* C10: in a Latin game computeKeyboardMap has an entry exactly for the
\* letters of the submitted guesses, each entry is the maximum (correct >
\* present > absent) of the tile results recorded for the letter over all
\* boards' pre-solve rows, and the order of the boards does not matter.
C10_LatinKeyboardMapIsMax ==
    game.language = "en" =>
        LET map == computeKeyboardMap(game)
        IN  /\ DOMAIN map = submittedLetters(game)
            /\ \A letter \in DOMAIN map :
                 /\ map[letter] \in tileResultsOf(game, letter)
                 /\ \A t \in tileResultsOf(game, letter) : rank(t) <= rank(map[letter])
            /\ \A perm \in BoardOrders : computeKeyboardMap(permuted(game, perm)) = map

\* C10 witness: a letter with all three results on record, correct in the map
C10_Witness ==
    /\ game.language = "en"
    /\ \E letter \in submittedLetters(game) :
         /\ tileResultsOf(game, letter) = {"correct", "present", "absent"}
         /\ computeKeyboardMap(game)[letter] = "correct"

(***************************************************************************)
(* Claims about the rows submitGuess records.                              *)
(***************************************************************************)
\* C11: when submitGuess accepts a guess while a board is solved, the board
\* gets the guess appended to guesses and a copy of its last result row
\* appended to results, solved and solvedOnGuess kept; so every row of a
\* solved board from the solving row on is the all-correct solving result.
C11_SolvedBoardRepeatsLastResult ==
    \A b \in 1..4 :
        LET board == game.boards[b]
        IN  board.solved =>
              /\ \A r \in board.solvedOnGuess..Len(board.results) :
                    /\ isSolved(board.results[r])
                    /\ board.results[r] = board.results[board.solvedOnGuess]
              /\ Len(board.guesses) = Len(board.results)
              /\ \A guess \in Guesses :
                    accepted(game, guess) =>
                      LET after == submitGuess(game, guess).state.boards[b]
                      IN  /\ after.guesses =
                                Append(board.guesses, normalizeGuess(guess, game.language))
                          /\ after.results =
                                Append(board.results, board.results[Len(board.results)])
                          /\ after.solved
                          /\ after.solvedOnGuess = board.solvedOnGuess

\* C11 witness: a solved board with a row after the solving one whose guess
\* is not the target, in a game that still takes guesses
C11_Witness ==
    /\ ~game.gameOver
    /\ \E b \in 1..4 :
         /\ game.boards[b].solved
         /\ \E r \in postSolveRows(game.boards[b]) :
              /\ game.boards[b].guesses[r] # game.boards[b].targetWord
              /\ isSolved(game.boards[b].results[r])

\* a guess validateGuess has to turn down: not of the alphabet's word length,
\* or holding a character outside the alphabet's class (a-z, A-Z for Latin,
\* U+AC00..U+D7A3 for Hangul)
wrongLength(language, guess) == Len(guess) # (IF language = "ko" THEN 2 ELSE 5)

outsideClass(language, guess) ==
    \E i \in 1..Len(guess) :
        IF language = "ko"
        THEN ~(guess[i] >= 44032 /\ guess[i] <= 55203)
        ELSE ~((guess[i] >= 97 /\ guess[i] <= 122) \/ (guess[i] >= 65 /\ guess[i] <= 90))

\* C12: a guess of the wrong length or with a character outside the
\* alphabet's class has no effect: submitGuess returns its input state and
\* does not throw.
C12_InvalidGuessIsNoOp ==
    \A guess \in Guesses :
        (wrongLength(game.language, guess) \/ outsideClass(game.language, guess))
            => submitGuess(game, guess) = [error |-> "none", state |-> game]

\* C12 witness: a game in progress after a guess, with a guess of the right
\* length holding a character outside the class, and a guess too short
C12_Witness ==
    /\ ~game.gameOver
    /\ game.guessCount >= 1
    /\ \E guess \in Guesses :
         ~wrongLength(game.language, guess) /\ outsideClass(game.language, guess)
    /\ \E guess \in Guesses :
         wrongLength(game.language, guess) /\ ~outsideClass(game.language, guess)

(***************************************************************************)
(* Claims about the Hangul jamo layer, on the result of a call of          *)
(* evaluateGuessKo.  Positions are 1-indexed.                              *)
(***************************************************************************)
koReturned == ev.pc = "returned" /\ ev.error = "none" /\ ev.source # "none"

\* the positions of the guess that carry jamo hints
hintedPositions ==
    { i \in 1..Len(ev.guess) :
        isHangulSyllable(ev.guess[i]) /\ ev.result[i].syllable # "correct" }

\* the positions of the target whose syllable the guess got right
greenPositions == { k \in 1..Len(ev.target) : ev.result[k].syllable = "correct" }

\* a final as the consonants it stands for: a compound final is its two components
expandedFinal(coda) ==
    IF coda = Null THEN <<>>
    ELSE IF splitCompoundCoda(coda) # <<>> THEN splitCompoundCoda(coda)
    ELSE <<coda>>

isCompoundFinal(coda) == coda # Null /\ splitCompoundCoda(coda) # <<>>

\* the consonants the target syllable at position k gives the pool: its
\* onset and its expanded final
targetConsonantsAt(k) ==
    IF isHangulSyllable(ev.target[k])
    THEN <<decomposeHangul(ev.target[k]).onset>>
         \o expandedFinal(decomposeHangul(ev.target[k]).coda)
    ELSE <<>>

\* occurrences of consonant c (vowel v) in the target at the given positions
consonantOccurrences(c, positions) ==
    Cardinality({ kn \in positions \X (1..3) :
                    kn[2] <= Len(targetConsonantsAt(kn[1]))
                    /\ targetConsonantsAt(kn[1])[kn[2]] = c })

vowelOccurrences(v, positions) ==
    Cardinality({ k \in positions :
                    isHangulSyllable(ev.target[k]) /\ decomposeHangul(ev.target[k]).vowel = v })

\* the jamo of the guess in a slot of position i, and its hint
guessJamo(i, slot) ==
    LET g == decomposeHangul(ev.guess[i])
    IN  IF slot = "onset" THEN g.onset ELSE IF slot = "vowel" THEN g.vowel ELSE g.coda

hintOf(i, slot) ==
    LET h == ev.result[i].jamoHints
    IN  IF slot = "onset" THEN h.onset ELSE IF slot = "vowel" THEN h.vowel ELSE h.coda

\* the slots of the guess holding jamo j whose hint is correct or present
creditedSlots(j, slots) ==
    { is \in hintedPositions \X slots :
        guessJamo(is[1], is[2]) = j /\ hintOf(is[1], is[2]) \in {"correct", "present"} }

\* the single consonants and the vowels of the guess
guessConsonants ==
    { guessJamo(is[1], is[2]) : is \in hintedPositions \X {"onset", "coda"} }
    \ ({Null} \cup { e[1] : e \in COMPOUND_CODA_SPLIT })

guessVowels == { guessJamo(i, "vowel") : i \in hintedPositions }

\* C13: the jamo layer is multiset-bounded over the whole target word: for
\* every consonant c the onset and final hints marked correct or present
\* for guess jamo equal to c are no more than the occurrences of c among
\* the target's onsets and expanded finals, and for every vowel v the vowel
\* hints marked correct or present are no more than v's occurrences among
\* the target's vowels.
C13_JamoHintsMultisetBounded ==
    koReturned =>
        /\ \A c \in guessConsonants :
             Cardinality(creditedSlots(c, {"onset", "coda"}))
                <= consonantOccurrences(c, 1..Len(ev.target))
        /\ \A v \in guessVowels :
             Cardinality(creditedSlots(v, {"vowel"}))
                <= vowelOccurrences(v, 1..Len(ev.target))

\* the jamo a hint of present can stand on: the guess jamo itself, or the
\* components of a compound guess final
presentBasis(i, slot) ==
    IF slot = "coda" /\ isCompoundFinal(guessJamo(i, slot))
    THEN { guessJamo(i, slot) } \cup { expandedFinal(guessJamo(i, slot))[n] : n \in 1..2 }
    ELSE { guessJamo(i, slot) }

\* C14: the jamo of syllable-correct target positions are out of the pools:
\* a guess jamo at another position is not marked present when all its
\* occurrences in the target are inside syllable-correct positions.
C14_JamoPreConsume ==
    koReturned =>
        \A i \in hintedPositions :
            /\ \A slot \in {"onset", "coda"} :
                 hintOf(i, slot) = "present" =>
                    \E c \in presentBasis(i, slot) :
                        consonantOccurrences(c, (1..Len(ev.target)) \ greenPositions) > 0
            /\ hintOf(i, "vowel") = "present" =>
                 vowelOccurrences(guessJamo(i, "vowel"),
                                  (1..Len(ev.target)) \ greenPositions) > 0

\* the positions of the target that are not syllable-correct: their jamo are
\* in the pools
openPositions == (1..Len(ev.target)) \ greenPositions

\* slot is of position i holds consonant c: as its jamo, or as a component
\* of its compound final
slotHolds(is, c) ==
    \/ guessJamo(is[1], is[2]) = c
    \/ is[2] = "coda" /\ \E n \in 1..Len(expandedFinal(guessJamo(is[1], "coda"))) :
                             expandedFinal(guessJamo(is[1], "coda"))[n] = c

\* consonant c is still in the pool for the slot: the target holds it, at
\* positions that are not syllable-correct, more often than the other
\* slots of the guess do
unconsumedFor(c, is) ==
    consonantOccurrences(c, openPositions)
        > Cardinality({ other \in hintedPositions \X {"onset", "coda"} :
                          other # is /\ slotHolds(other, c) })

\* the finals and the onsets of the target at positions not syllable-correct
openTargetFinals ==
    { decomposeHangul(ev.target[k]).coda :
        k \in { j \in openPositions : isHangulSyllable(ev.target[j]) } } \ {Null}

openTargetOnsets ==
    { decomposeHangul(ev.target[k]).onset :
        k \in { j \in openPositions : isHangulSyllable(ev.target[j]) } }

\* every consonant some final of the target stands for
allTargetFinalConsonants ==
    UNION { { expandedFinal(decomposeHangul(ev.target[k]).coda)[n] :
                n \in 1..Len(expandedFinal(decomposeHangul(ev.target[k]).coda)) } :
            k \in { j \in 1..Len(ev.target) : isHangulSyllable(ev.target[j]) } }

\* the guess onset at position i is a final of the target and not the
\* target's onset there; the guess final is an onset of the target, no final
\* of it, and not the target's final there
onsetIsTargetFinal(i) ==
    /\ isHangulSyllable(ev.target[i])
    /\ guessJamo(i, "onset") # decomposeHangul(ev.target[i]).onset
    /\ guessJamo(i, "onset") \in openTargetFinals
    /\ unconsumedFor(guessJamo(i, "onset"), <<i, "onset">>)

finalIsTargetOnset(i) ==
    /\ isHangulSyllable(ev.target[i])
    /\ guessJamo(i, "coda") # Null
    /\ guessJamo(i, "coda") # decomposeHangul(ev.target[i]).coda
    /\ guessJamo(i, "coda") \in openTargetOnsets
    /\ guessJamo(i, "coda") \notin allTargetFinalConsonants
    /\ unconsumedFor(guessJamo(i, "coda"), <<i, "coda">>)

\* C15: cross-slot consonant matching: at a position that is not
\* syllable-correct, a guess onset that differs from the target onset there
\* and is an unconsumed final of some target syllable is marked present, and
\* a guess final that occurs only as an onset of the target is marked present.
C15_CrossSlotConsonants ==
    koReturned =>
        \A i \in hintedPositions :
            /\ onsetIsTargetFinal(i) => hintOf(i, "onset") = "present"
            /\ finalIsTargetOnset(i) => hintOf(i, "coda") = "present"

\* C15 witness: a call of the counted-pools source with a guess onset that
\* is a final of the target, marked present
C15_Witness ==
    /\ koReturned
    /\ ev.source = "part_007"
    /\ \E i \in hintedPositions :
         onsetIsTargetFinal(i) /\ hintOf(i, "onset") = "present"

\* the components of the compound finals of the target at positions not
\* syllable-correct
openCompoundComponents ==
    UNION { { expandedFinal(c)[n] : n \in 1..2 } :
            c \in { f \in openTargetFinals : isCompoundFinal(f) } }

\* the guess jamo in the slot is a single consonant, a component of a
\* compound final of the target, not the target's jamo in that slot there
singleIsCompoundComponent(i, slot) ==
    /\ isHangulSyllable(ev.target[i])
    /\ guessJamo(i, slot) # Null
    /\ ~isCompoundFinal(guessJamo(i, slot))
    /\ guessJamo(i, slot) # (IF slot = "onset" THEN decomposeHangul(ev.target[i]).onset
                             ELSE decomposeHangul(ev.target[i]).coda)
    /\ guessJamo(i, slot) \in openCompoundComponents
    /\ unconsumedFor(guessJamo(i, slot), <<i, slot>>)

\* the guess final is compound, not the target's final there, and one of
\* its components is still in the pool
compoundHasComponentInPool(i) ==
    /\ isHangulSyllable(ev.target[i])
    /\ isCompoundFinal(guessJamo(i, "coda"))
    /\ guessJamo(i, "coda") # decomposeHangul(ev.target[i]).coda
    /\ \E n \in 1..2 :
         unconsumedFor(expandedFinal(guessJamo(i, "coda"))[n], <<i, "coda">>)

\* C16: compound-final expansion: a target final that is a compound X+Y
\* gives X and Y to the consonant pool, so a guess final or onset that is
\* the single consonant X or Y, at a position that is not syllable-correct,
\* is marked present; and a compound guess final that is not directly
\* matched is marked present when one of its components is still in the pool.
C16_CompoundFinalExpansion ==
    koReturned =>
        \A i \in hintedPositions :
            /\ \A slot \in {"onset", "coda"} :
                 singleIsCompoundComponent(i, slot) => hintOf(i, slot) = "present"
            /\ compoundHasComponentInPool(i) => hintOf(i, "coda") = "present"

\* C16 witness: a call of the counted-pools source with a single guess
\* final marked present for a component of a compound target final at
\* another position
C16_Witness ==
    /\ koReturned
    /\ ev.source = "part_007"
    /\ \E i \in hintedPositions :
         /\ singleIsCompoundComponent(i, "coda")
         /\ ~isCompoundFinal(decomposeHangul(ev.target[i]).coda)
         /\ hintOf(i, "coda") = "present"

(***************************************************************************)
(* Claims about the Hangul codec.                                          *)
(***************************************************************************)
\* C17: round trip: for every composed syllable s in U+AC00..U+D7A3,
\* composeHangul on the onset, vowel and coda of decomposeHangul(s) returns
\* s and does not throw (a null coda composes as index 0).
C17_ComposeDecomposeRoundTrip ==
    ev.pc = "composed" => (ev.error = "none" /\ ev.result = ev.syllable)

\* C17 witness: a syllable without coda, not the first of its onset or
\* vowel, composed again
C17_Witness ==
    /\ ev.pc = "composed"
    /\ ev.d.coda = Null
    /\ ev.d.onset # 12593
    /\ ev.d.vowel # 12623
    /\ ev.result = ev.syllable

\* the 11 compound finals: ㄳ ㄵ ㄶ ㄺ ㄻ ㄼ ㄽ ㄾ ㄿ ㅀ ㅄ
CompoundFinals ==
    { 12595, 12597, 12598, 12602, 12603, 12604, 12605, 12606, 12607, 12608, 12612 }

\* C18: splitCompoundCoda and combineCodas are mutual inverses on the 11
\* compound finals: a compound final splits into a pair that combines to
\* it again; a pair that combines gives a compound final that splits into
\* that pair; splitCompoundCoda returns null on everything that is not a
\* compound final, and combineCodas returns null on every pair that no
\* compound final splits into.
C18_SplitCombineInverse ==
    /\ ev.pc = "split" =>
         IF ev.first \in CompoundFinals
         THEN ev.split # <<>> /\ Len(ev.split) = 2 /\ ev.combined = ev.first
         ELSE ev.split = <<>>
    /\ ev.pc = "combined" =>
         IF ev.combined # Null
         THEN ev.combined \in CompoundFinals /\ ev.split = <<ev.first, ev.second>>
         ELSE \A c \in CompoundFinals : splitCompoundCoda(c) # <<ev.first, ev.second>>

\* C18 witness: ㄹ and ㄱ combined into ㄺ and split again
C18_Witness ==
    /\ ev.pc = "combined"
    /\ ev.first = 12601 /\ ev.second = 12593
    /\ ev.combined = 12602
    /\ ev.split = <<12601, 12593>>

(***************************************************************************)
(* Claims about the daily selector.                                        *)
(***************************************************************************)
\* the last call has the arguments of the earlier call, to the same function
sameCallAsEarlier ==
    /\ ev.pc = "returned"
    /\ ev.earlier # <<>>
    /\ ev.earlier[1].source = ev.source
    /\ ev.earlier[1].dateKey = ev.dateKey
    /\ ev.earlier[1].language = ev.language

answerList(language) == IF language = "ko" THEN KO_WORD_LIST ELSE WORD_LIST

\* C20: for every dateKey, getDailyTargets returns exactly 4 words, the
\* entries at 4 pairwise distinct indices of the answer-word list of the
\* alphabet asked for (and so 4 pairwise distinct words).
C20_FourDistinctAnswerWords ==
    ev.pc = "returned" =>
        /\ Len(ev.result) = 4
        /\ Len(ev.indices) = 4
        /\ \A n \in 1..4 :
             /\ ev.indices[n] \in 0..(Len(answerList(ev.language)) - 1)
             /\ ev.result[n] = answerList(ev.language)[ev.indices[n] + 1]
        /\ \A m, n \in 1..4 :
             m # n => ev.indices[m] # ev.indices[n] /\ ev.result[m] # ev.result[n]

\* the last call and the earlier call are calls of the same function with
\* the same dateKey, for the alphabets a and b (either way round)
callsFor(a, b) ==
    /\ ev.pc = "returned"
    /\ ev.earlier # <<>>
    /\ ev.earlier[1].source = ev.source
    /\ ev.earlier[1].dateKey = ev.dateKey
    /\ {ev.earlier[1].language, ev.language} = {a, b}

\* the words of a result are all entries of the list
drawnFrom(result, list) ==
    \A n \in 1..Len(result) : \E i \in 1..Len(list) : result[n] = list[i]

\* C21: for every dateKey, the seed input hashed for the Korean alphabet
\* differs from the seed input hashed for the Latin alphabet, the Korean
\* targets are drawn from the Korean answer list and the Latin targets from
\* the Latin answer list, and the result for 'en' equals the result with
\* the alphabet left out.
C21_SaltedPerAlphabet ==
    /\ callsFor("en", "ko") =>
         LET ko == IF ev.language = "ko" THEN lastCall ELSE ev.earlier[1]
             en == IF ev.language = "ko" THEN ev.earlier[1] ELSE lastCall
         IN  /\ ko.seedInput # en.seedInput
             /\ drawnFrom(ko.result, KO_WORD_LIST)
             /\ drawnFrom(en.result, WORD_LIST)
    /\ callsFor("en", "undefined") => ev.result = ev.earlier[1].result

\* the sampling loop is running and every index it can draw is used: each
\* further draw is rejected
samplingCannotEnd ==
    /\ ev.pc = "drawing"
    /\ Len(ev.indices) < 4
    /\ \A idx \in 0..(IF ev.length = 0 THEN 0 ELSE ev.length - 1) :
         \E n \in 1..Len(ev.indices) : ev.indices[n] = idx

keyResultsOn(state, b, key) ==
    LET board == state.boards[b]
    IN  UNION { UNION {
            IF state.language = "ko"
            THEN IF isHangulSyllable(board.guesses[r][i])
                 THEN LET d == decomposeHangul(board.guesses[r][i])
                          k == board.koResults[r][i]
                          st(slot) == IF k.syllable = "correct" THEN "correct"
                                      ELSE k.jamoHints[slot]
                      IN  (IF d.onset = key THEN {st("onset")} ELSE {})
                          \cup (IF d.vowel = key THEN {st("vowel")} ELSE {})
                          \cup (IF d.coda = key THEN {st("coda")} ELSE {})
                 ELSE {}
            ELSE IF board.guesses[r][i] = key THEN {board.results[r][i]} ELSE {} :
            i \in 1..Len(board.guesses[r]) } :
            r \in preSolveRows(board) }

\* the keys of the submitted guesses: their letters, or their syllables' jamo
submittedKeys(state) ==
    UNION { UNION { keysOfWord(state.language, state.boards[b].guesses[r]) :
                    r \in 1..Len(state.boards[b].guesses) } :
            b \in 1..4 }

\* C23: computeKeyboardBoardMap is empty before any guess; afterwards it has
\* an entry for each symbol of the submitted guesses (each jamo, for
\* Hangul), an array of 4 whose entry for board b is the maximum (correct >
\* present > absent) of the symbol's results over board b's pre-solve rows,
\* and null when the symbol has no result on board b's pre-solve rows.
C23_PerBoardKeyboardMap ==
    LET map == computeKeyboardBoardMap(game)
    IN  /\ game.guessCount = 0 => DOMAIN map = {}
        /\ DOMAIN map = submittedKeys(game)
        /\ \A key \in DOMAIN map :
             /\ DOMAIN map[key] = 1..4
             /\ \A b \in 1..4 :
                  LET rs == keyResultsOn(game, b, key)
                  IN  IF rs = {} THEN map[key][b] = "null"
                      ELSE /\ map[key][b] \in rs
                           /\ \A t \in rs : rank(t) <= rank(map[key][b])

\* C23 witness: a key that is null on a board solved before the key was
\* guessed, and has on another board results of two kinds, the higher one
\* in the map
C23_Witness ==
    \E key \in DOMAIN computeKeyboardBoardMap(game) :
        \E b, c \in 1..4 :
            /\ game.boards[b].solved
            /\ key \in keysOfWord(game.language,
                                  game.boards[b].guesses[Len(game.boards[b].guesses)])
            /\ computeKeyboardBoardMap(game)[key][b] = "null"
            /\ Cardinality(keyResultsOn(game, c, key)) >= 2
            /\ computeKeyboardBoardMap(game)[key][c]
                 = IF "correct" \in keyResultsOn(game, c, key) THEN "correct" ELSE "present"

(***************************************************************************)
(* Claims about the purity of the transitions.                             *)
(***************************************************************************)
\* C24: submitGuess and setCurrentGuess never modify their argument: after
\* either call the GameState the caller passed (boards, each board's
\* guesses, results, solved and solvedOnGuess, currentGuess, guessCount,
\* gameOver, won) reads as it did before the call, whether the call
\* returned a new state or the one it was given.
C24_ArgumentUntouched ==
    ev.arg # Null => deref(ev.heap, ev.arg) = ev.before

\* C24 witness: a second guess was accepted and a new state returned, and
\* the state passed still has one guess on every board
C24_Witness ==
    /\ ev.op = "submitGuess"
    /\ ev.ret # ev.arg
    /\ game.guessCount = 2
    /\ \A b \in 1..4 : Len(deref(ev.heap, ev.arg).boards[b].guesses) = 1

(***************************************************************************)
(* Claims about the typing buffer.                                         *)
(***************************************************************************)
\* a case-folded character is of the alphabet's class: a lowercase Latin
\* letter, or a composed Hangul syllable
inAlphabetClass(language, c) ==
    IF language = "ko" THEN c \in HANGUL_BASE..HANGUL_LAST ELSE c \in 97..122

\* raw case-folded, without the characters outside the class
RECURSIVE foldedAndFiltered(_, _)
foldedAndFiltered(language, raw) ==
    IF raw = <<>> THEN <<>>
    ELSE LET c == toLowerCaseChar(Head(raw))
         IN  (IF inAlphabetClass(language, c) THEN <<c>> ELSE <<>>)
             \o foldedAndFiltered(language, Tail(raw))

\* C25: on a game that is not over, setCurrentGuess(game, raw) returns the
\* game with currentGuess set to the first wordLength symbols of raw
\* case-folded and stripped of every character outside the alphabet's class
\* (filter, then truncate), in both alphabets, and with no other field
\* changed.
C25_SetCurrentGuessFilterThenTruncate ==
    ~game.gameOver =>
        \A raw \in RawInputs :
            setCurrentGuess(game, raw)
              = [game EXCEPT !.currentGuess =
                    slice0(foldedAndFiltered(game.language, raw),
                           wordLength(game.language))]

(***************************************************************************)
(* Claims about the syllable layer and the evaluators' contracts.          *)
(***************************************************************************)
\* the syllable-layer results of the call that returned
syllableLayer == [i \in 1..Len(ev.result) |-> ev.result[i].syllable]

\* C26: the syllable layer is the Latin algorithm on syllables: for guess
\* and target of equal length evaluateGuessSyllable returns the array the
\* Latin evaluator returns on the same sequences (each syllable one
\* symbol), evaluateGuessKo reports that array as its syllable layer, and
\* the board the guess is recorded on is solved exactly when the array is
\* all correct.
C26_SyllableLayerIsLatinAlgorithm ==
    (ev.pc = "returned" /\ Len(ev.guess) = Len(ev.target)) =>
        LET syllables == evaluateGuessSyllable(ev.guess, ev.target)
            board     == newBoard(createBoardState(ev.target), ev.guess, "ko", 0)
        IN  /\ syllables.error = "none"
            /\ syllables.result = evaluateGuess(ev.guess, ev.target).result
            /\ syllableLayer = syllables.result
            /\ board.solved <=> \A i \in 1..Len(ev.guess) : syllables.result[i] = "correct"

\* C26 witness: a syllable guessed twice and held once by the target, at the
\* second position: absent, then correct
C26_Witness ==
    /\ ev.pc = "returned"
    /\ Len(ev.guess) = 2 /\ Len(ev.target) = 2
    /\ ev.guess[1] = ev.guess[2]
    /\ isHangulSyllable(ev.guess[1])
    /\ syllableLayer = <<"absent", "correct">>

\* x and y are the same sequence up to the case of their Latin letters
sameUpToCase(x, y) ==
    /\ Len(x) = Len(y)
    /\ \A i \in 1..Len(x) :
          \/ x[i] = y[i]
          \/ x[i] \in 65..90  /\ y[i] = x[i] + 32
          \/ x[i] \in 97..122 /\ y[i] = x[i] - 32

allCorrect(result) == \A i \in 1..Len(result) : result[i] = "correct"

LetterResults == { "correct", "present", "absent" }

\* C28: both evaluators reject unequal lengths: called with a guess whose
\* length differs from the target's, the evaluator fails with the
\* length-mismatch error and returns no array; called with equal lengths it
\* returns an array of exactly that length whose elements are correct,
\* present or absent.
C28_LengthContract ==
    ev.pc = "returned" =>
        IF Len(ev.guess) # Len(ev.target)
        THEN ev.error = "LengthMismatch" /\ ev.result = <<>>
        ELSE /\ ev.error = "none"
             /\ Len(ev.result) = Len(ev.guess)
             /\ \A i \in 1..Len(ev.result) : ev.result[i] \in LetterResults

(***************************************************************************)
(* Claims about the codec's failures and about the hints' presence.        *)
(***************************************************************************)
tableOf(table) == { table[n] : n \in 1..Len(table) }

\* the 27 finals: the coda table without its entry 0
Finals27 == { CODAS[n] : n \in 2..Len(CODAS) }

failedWithoutResult == ev.error # "none" /\ ev.result = Null

\* decomposeHangul was called on a character outside U+AC00..U+D7A3
decomposedOutOfRange ==
    ev.pc = "decomposed" /\ ~(ev.char >= 44032 /\ ev.char <= 55203)

\* composeHangul was called with an onset or a vowel outside its table
composedOffTable ==
    ev.pc = "composed"
      /\ (ev.onset \notin tableOf(ONSETS) \/ ev.vowel \notin tableOf(VOWELS))

\* C29 as stated: decomposeHangul fails for every character outside
\* U+AC00..U+D7A3, and composeHangul fails whenever the onset is not one of
\* the 19 onsets, the vowel not one of the 21 vowels, or a non-null final not
\* one of the 27 finals; no syllable or decomposition is returned then.
C29_CodecFailsOffTable_asStated ==
    (\/ decomposedOutOfRange
     \/ composedOffTable
     \/ ev.pc = "composed" /\ ev.coda # Null /\ ev.coda \notin Finals27)
        => failedWithoutResult

\* C29, amended: as stated, with the empty string taken for no final as null
\* is: composeHangul fails on a final that is neither null nor empty and not
\* one of the 27 finals, and composes the syllable without a final when the
\* final is the empty string and onset and vowel are in their tables.
C29_CodecFailsOffTable ==
    /\ (\/ decomposedOutOfRange
        \/ composedOffTable
        \/ ev.pc = "composed" /\ ev.coda \notin {Null, EmptyString}
                              /\ ev.coda \notin Finals27)
          => failedWithoutResult
    /\ (ev.pc = "composed" /\ ev.coda = EmptyString /\ ~composedOffTable)
          => /\ ev.error = "none"
             /\ isHangulSyllable(ev.result)
             /\ decomposeHangul(ev.result)
                  = [onset |-> ev.onset, vowel |-> ev.vowel, coda |-> Null]

\* C29 witness: composeHangul failed on ㄸ as a final, onset and vowel being
\* in their tables
C29_Witness ==
    /\ ev.pc = "composed"
    /\ ev.onset = 12593 /\ ev.vowel = 12623 /\ ev.coda = 12600
    /\ ev.error = "Invalid coda" /\ ev.result = Null

\* C30: in the result of evaluateGuessKo a position has jamoHints = null
\* exactly when its syllable result is correct, and every position that is
\* not correct carries a hint whose onset and vowel are correct, present or
\* absent (its coda one of these or null).
C30_HintsExactlyOffCorrect ==
    koReturned =>
        \A i \in 1..Len(ev.result) :
            /\ ev.result[i].jamoHints = NullJamoHint <=> ev.result[i].syllable = "correct"
            /\ ev.result[i].syllable # "correct" =>
                  /\ ev.result[i].jamoHints.onset \in LetterResults
                  /\ ev.result[i].jamoHints.vowel \in LetterResults
                  /\ ev.result[i].jamoHints.coda \in LetterResults \cup {"null"}

\* C30 witness: a correct syllable without hints beside a syllable that is
\* not correct and is hinted
C30_Witness ==
    /\ koReturned
    /\ Len(ev.result) = 2
    /\ ev.result[1] = [syllable |-> "correct", jamoHints |-> NullJamoHint]
    /\ ev.result[2].syllable = "absent"
    /\ ev.result[2].jamoHints.onset = "present"
    /\ ev.result[2].jamoHints.vowel = "correct"

(***************************************************************************)
(* Claims about the final's hint and about validateGuess.                  *)
(***************************************************************************)
\* a composed syllable has a final when its offset is no multiple of 28
hasFinal(syllable) == (syllable - 44032) % 28 # 0

\* the positions that are not correct and hold a composed syllable on both
\* sides
comparedPositions ==
    { i \in 1..Len(ev.result) :
        /\ ev.result[i].syllable # "correct"
        /\ ev.guess[i] \in 44032..55203 /\ ev.target[i] \in 44032..55203 }

\* C31: at a position that is not correct and holds a composed syllable in
\* guess and target, the final's hint is null exactly when neither syllable
\* has a final, and is absent when the guess has no final and the target has
\* one.
C31_FinalHintNullIffNoFinals ==
    koReturned =>
        \A i \in comparedPositions :
            /\ ev.result[i].jamoHints.coda = "null"
                 <=> ~hasFinal(ev.guess[i]) /\ ~hasFinal(ev.target[i])
            /\ (~hasFinal(ev.guess[i]) /\ hasFinal(ev.target[i]))
                 => ev.result[i].jamoHints.coda = "absent"

\* C31 witness: by the source with counted pools, a guess without a final
\* against a target with one (absent) beside a position where neither has a
\* final (null)
C31_Witness ==
    /\ koReturned /\ ev.source = "part_007"
    /\ Len(ev.result) = 2 /\ comparedPositions = {1, 2}
    /\ ~hasFinal(ev.guess[1]) /\ hasFinal(ev.target[1])
    /\ ev.result[1].jamoHints.coda = "absent"
    /\ ~hasFinal(ev.guess[2]) /\ ~hasFinal(ev.target[2])
    /\ ev.result[2].jamoHints.coda = "null"

\* the word is one of the answer list
inDictionary(word) == \E n \in 1..Len(WORD_LIST) : WORD_LIST[n] = word

\* the language validateGuess works with when the argument is left out
validatedLanguage == IF ev.language = "ko" THEN "ko" ELSE "en"

storedForm(language, guess) ==
    IF language = "ko" THEN guess
    ELSE [i \in 1..Len(guess) |->
            IF guess[i] \in 65..90 THEN guess[i] + 32 ELSE guess[i]]

\* the guesses taken in so far, as the game stores them, in submission order
acceptedStream ==
    [n \in 1..Len(ev.accepted) |-> storedForm(game.language, ev.accepted[n])]

\* C33: the four boards share one guess stream: every board's guesses array
\* is the sequence of the guesses taken in, normalised, in submission order;
\* it has guessCount entries, and the board's results array (and koResults
\* array in a Korean game) has as many.
C33_OneGuessStream ==
    \A b \in 1..4 :
        /\ game.boards[b].guesses = acceptedStream
        /\ Len(game.boards[b].guesses) = game.guessCount
        /\ Len(game.boards[b].results) = game.guessCount
        /\ game.language = "ko" => Len(game.boards[b].koResults) = game.guessCount

\* C33 witness: a Korean game with a board solved by the first guess and a
\* board still unsolved after three different guesses
C33_Witness ==
    /\ game.language = "ko"
    /\ game.guessCount = 3
    /\ ev.accepted[1] # ev.accepted[2] /\ ev.accepted[2] # ev.accepted[3]
    /\ \E b \in 1..4 : game.boards[b].solvedOnGuess = 1
    /\ \E b \in 1..4 : ~game.boards[b].solved

\* the rows of a board up to and including its solving row: all of them
\* while it is unsolved
evaluatedRows(board) ==
    { i \in 1..Len(board.guesses) : ~board.solved \/ i <= board.solvedOnGuess }

\* every stored row up to the solving row is what the alphabet's evaluator
\* returns for that row's guess and the board's target
storedRowsAreFresh ==
    \A b \in 1..4 :
        LET board == game.boards[b]
        IN  \A i \in evaluatedRows(board) :
                IF game.language = "ko"
                THEN /\ board.results[i]
                          = evaluateGuessSyllable(board.guesses[i], board.targetWord).result
                     /\ board.koResults[i]
                          = evaluateGuessKo(board.guesses[i], board.targetWord).result
                ELSE board.results[i]
                          = evaluateGuess(board.guesses[i], board.targetWord).result

isPrefix(old, new) == Len(old) <= Len(new) /\ SubSeq(new, 1, Len(old)) = old

\* a step leaves every stored row, the targets, maxGuesses and the language
\* as they are, and adds at most one row to each board
rowsOnlyAppended ==
    /\ game'.maxGuesses = game.maxGuesses
    /\ game'.language = game.language
    /\ \A b \in 1..4 :
          LET old == game.boards[b]
              new == game'.boards[b]
          IN  /\ new.targetWord = old.targetWord
              /\ isPrefix(old.guesses, new.guesses)
              /\ isPrefix(old.results, new.results)
              /\ isPrefix(old.koResults, new.koResults)
              /\ Len(new.guesses) <= Len(old.guesses) + 1
              /\ Len(new.results) = Len(new.guesses)

\* C34: stored results are never rewritten and equal a fresh evaluation: in
\* every reachable state every row up to and including the solving row (every
\* row of an unsolved board) holds the evaluator's result for that row's
\* guess and the board's target, and a step only appends a row: the earlier
\* rows, the targets, maxGuesses and the language stay as they are.
C34_StoredResultsAreFreshAndKept ==
    [](storedRowsAreFresh) /\ [][rowsOnlyAppended]_vars

\* C34 witness: after three guesses a board solved by the second, with a
\* first row that is not all correct, beside an unsolved board
C34_Witness ==
    /\ game.guessCount = 3
    /\ \E b \in 1..4 :
          /\ game.boards[b].solvedOnGuess = 2
          /\ ~isSolved(game.boards[b].results[1])
    /\ \E b \in 1..4 : ~game.boards[b].solved

\* C35: on every board, solved is true exactly when solvedOnGuess is not
\* null; on a solved board solvedOnGuess lies in 1..guessCount, the guess of
\* row solvedOnGuess (index solvedOnGuess - 1 in the source) is the board's
\* targetWord, and no earlier row's guess is.
C35_SolvedOnGuessNamesFirstHit ==
    \A b \in 1..4 :
        LET board == game.boards[b]
        IN  /\ board.solved <=> board.solvedOnGuess # Null
            /\ board.solved =>
                  /\ 1 <= board.solvedOnGuess
                  /\ board.solvedOnGuess <= game.guessCount
                  /\ board.guesses[board.solvedOnGuess] = board.targetWord
                  /\ \A i \in 1..(board.solvedOnGuess - 1) :
                        board.guesses[i] # board.targetWord

\* C35 witness: a board solved by the third guess, two guesses later
C35_Witness ==
    /\ game.guessCount = 4
    /\ \E b \in 1..4 :
          /\ game.boards[b].solved
          /\ game.boards[b].solvedOnGuess = 3
          /\ game.boards[b].guesses[4] # game.boards[b].targetWord

\* C36: in a game created with maxGuesses >= 1, guessCount never exceeds
\* maxGuesses, getRemainingGuesses is never negative, and once maxGuesses
\* guesses were taken in the game is over.
C36_GuessBudgetKept ==
    game.maxGuesses >= 1 =>
        /\ game.guessCount <= game.maxGuesses
        /\ getRemainingGuesses(game) >= 0
        /\ Len(ev.accepted) = game.maxGuesses => game.gameOver

\* C36 witness: a lost game that took in all of its three guesses
C36_Witness ==
    /\ game.maxGuesses = 3
    /\ Len(ev.accepted) = 3
    /\ game.gameOver /\ ~game.won
    /\ getRemainingGuesses(game) = 0

(***************************************************************************)
(* Claims about the session server.                                        *)
(***************************************************************************)
\* what the engine's game state and the server's have in common
boardView(board) ==
    [guesses |-> board.guesses, results |-> board.results,
     solved |-> board.solved, solvedOnGuess |-> board.solvedOnGuess]

gameView(gameState) ==
    [boards     |-> [b \in 1..4 |-> boardView(gameState.boards[b])],
     guessCount |-> gameState.guessCount,
     gameOver   |-> gameState.gameOver,
     won        |-> gameState.won]

\* C38: played from the same targets with the guesses both sides take as
\* valid, the WebSocket GUESS handler and POST /api/game/guess keep the same
\* per-board guesses, results, solved and solvedOnGuess and the same
\* guessCount, gameOver and won as the engine's submitGuess; and a guess on
\* a finished game is turned down by each of them (GAME_OVER, the stored
\* state sent back) with the stored state as it was.
C38_ServerAgreesWithEngine ==
    /\ gameView(ev.ws.gameState) = gameView(game)
    /\ gameView(ev.rest) = gameView(game)
    /\ ev.before.ws.gameState.gameOver => ev.code = "GAME_OVER" /\ ev.ws = ev.before.ws
    /\ ev.before.rest.gameOver => ev.status = 200 /\ ev.rest = ev.before.rest

\* C38 witness: a game won with the third guess, one board solved by the
\* first and carried through two more rows, and a fourth guess turned down
C38_Witness ==
    /\ game.won /\ game.guessCount = 3
    /\ \E b \in 1..4 : ev.rest.boards[b].solvedOnGuess = 1
    /\ ev.before.ws.gameState.gameOver
    /\ ev.code = "GAME_OVER"

\* the guessCount the room's player map holds for a player, -1 for none
storedGuessCount(room, visibleUserId) ==
    IF getPlayer(room.players, visibleUserId) = NoPlayer THEN -1
    ELSE getPlayer(room.players, visibleUserId).gameState.guessCount

\* C37: for each player of the room, no step of a JOIN or GUESS handler,
\* a resumed JOIN included, makes the guessCount stored in the room's player
\* map smaller.
C37_GuessCountNeverDecreases ==
    [][\A visibleUserId \in Users :
          storedGuessCount(game', visibleUserId) >= storedGuessCount(game, visibleUserId)]_vars

\* C37 reached: a JOIN that waited for Redis puts a player back to an
\* earlier game
C37_Reached ==
    /\ ev.pending = <<>>
    /\ \E visibleUserId \in Users :
          /\ storedGuessCount(game, visibleUserId) = 0
          /\ ev.redis[visibleUserId] = getPlayer(game.players, visibleUserId)

\* a goes before b on the leaderboard only if the order of the claim allows
\* it: finished before unfinished, then more boards solved, then fewer
\* guesses, then the earlier finishedAt
mayPrecede(a, b) ==
    IF a.gameOver # b.gameOver THEN a.gameOver
    ELSE IF a.solvedCount # b.solvedCount THEN a.solvedCount > b.solvedCount
    ELSE IF a.guessCount # b.guessCount THEN a.guessCount < b.guessCount
    ELSE IF a.finishedAt # Null /\ b.finishedAt # Null THEN a.finishedAt <= b.finishedAt
    ELSE TRUE

\* the leaderboard holds one entry for each player of the map and no other,
\* each entry is the player's game as it is now, and the entries are in
\* the order of the claim
leaderboardMatchesPlayers ==
    /\ Len(game.leaderboard) = Len(game.players)
    /\ \A i \in 1..Len(game.players) :
          Cardinality({ k \in 1..Len(game.leaderboard) :
                          game.leaderboard[k].visibleUserId
                            = game.players[i].visibleUserId }) = 1
    /\ \A k \in 1..Len(game.leaderboard) :
          \E i \in 1..Len(game.players) :
              LET entry  == game.leaderboard[k]
                  player == game.players[i]
              IN  /\ entry.visibleUserId = player.visibleUserId
                  /\ entry.solvedCount = Cardinality({ b \in 1..4 :
                                             player.gameState.boards[b].solved })
                  /\ entry.guessCount = player.gameState.guessCount
                  /\ entry.gameOver = player.gameState.gameOver
                  /\ entry.won = player.gameState.won
    /\ \A k \in 1..Len(game.leaderboard), l \in 1..Len(game.leaderboard) :
          k < l => mayPrecede(game.leaderboard[k], game.leaderboard[l])

\* finishedAt is null until the game is over, is set with the guess that
\* ends it, and once set stays what it is
finishedAtSetOnceAtTheEnd ==
    \A visibleUserId \in Users :
        LET before == getPlayer(game.players, visibleUserId)
            after  == getPlayer(game.players', visibleUserId)
        IN  /\ after # NoPlayer =>
                  (after.finishedAt # Null <=> after.gameState.gameOver)
            /\ before # NoPlayer /\ before.finishedAt # Null =>
                  after # NoPlayer /\ after.finishedAt = before.finishedAt

\* C39: after every setPlayer the room's leaderboard has exactly one entry
\* per player of the player map, with the player's current solvedCount,
\* guessCount, gameOver and won, ordered finished before unfinished, then
\* more boards solved, then fewer guesses, then earlier finishedAt; and a
\* player's finishedAt is set on the guess that ends the game and never
\* changes afterwards.
C39_LeaderboardMirrorsPlayers ==
    /\ [](leaderboardMatchesPlayers)
    /\ [][finishedAtSetOnceAtTheEnd]_vars

\* the leaderboard part of C39 on its own
C39_LeaderboardPart == leaderboardMatchesPlayers

\* a state the leaderboard part is about: both players on the board, one
\* finished and won, the other still playing with a board solved
C39_LeaderboardReached ==
    /\ Len(game.leaderboard) = 2
    /\ game.leaderboard[1].won
    /\ ~game.leaderboard[2].gameOver /\ game.leaderboard[2].solvedCount = 1

\* the sockets that are members of a room's connection set
membersOf(roomKey) ==
    IF roomKey \notin DOMAIN game THEN {}
    ELSE { game[roomKey][i].ws : i \in 1..Len(game[roomKey]) }

\* C40: a connection that sent JOIN for a room and then LEAVE, or was
\* closed, is not a member of that room's connection set; no connection
\* set is kept empty; and no LEADERBOARD or ROOM_EVENT of that room goes to
\* that connection from then on.
C40_LeftConnectionsAreGone ==
    /\ \A p \in ev.left : p[1] \notin membersOf(p[2])
    /\ \A roomKey \in DOMAIN game : game[roomKey] # <<>>
    /\ \A ws \in ev.sent.to : <<ws, ev.sent.roomKey>> \notin ev.left

\* C40 reached in the Korean room: a socket that left it is still a member
\* and gets its LEADERBOARD
C40_ReachedKo ==
    /\ <<"ws1", <<"r", "d", "ko">>>> \in ev.left
    /\ ev.sent = [roomKey |-> <<"r", "d", "ko">>, to |-> {"ws1"}]

\* C40 reached in the English room: a socket that sent JOIN twice and
\* LEAVE once is still a member
C40_ReachedEn ==
    /\ <<"ws1", <<"r", "d", "en">>>> \in ev.left
    /\ "ws1" \in membersOf(<<"r", "d", "en">>)
    /\ <<"r", "d", "ko">> \notin DOMAIN game

=============================================================================
